---- MODULE Spec2Model ----
(***************************************************************************)
(* Drag physics of the artist graph (src/public/app.js, initGraph): the    *)
(* grab / drag / free handlers registered on the cytoscape instance and    *)
(* the requestAnimationFrame loop `decelerate` that runs after a release.  *)
(*                                                                         *)
(* Numbers.  JavaScript numbers are IEEE doubles; here every coordinate    *)
(* and velocity component is an integer count of micro-pixels (10^-6 px),  *)
(* and a product with a decimal constant is truncated toward zero.  A      *)
(* square root of a sum of two squares is taken at a resolution of         *)
(* 0.01 px unless one of the two terms is zero, where it is exact.         *)
(***************************************************************************)
EXTENDS Integers, Sequences, FiniteSets, TLC

(***************************************************************************)
(* Values of the JavaScript heap.                                          *)
(***************************************************************************)
\* null / undefined of a variable or scratch field; a present value v of a
\* scalar field is the one-element tuple <<v>>, a present vector is <<x, y>>.
Null == << >>

Some(v) == << v >>

IsNull(v) == v = Null

\* micro-pixels per pixel
Px == 1000 * 1000

\* micro-pixels per 0.01 px, the resolution of an off-axis square root
Coarse == 100 * 100

Abs(a) == IF a < 0 THEN -a ELSE a

Sgn(a) == IF a < 0 THEN -1 ELSE IF a > 0 THEN 1 ELSE 0

Max(a, b) == IF a >= b THEN a ELSE b

\* MulFrac is v * (num / den), truncated toward zero: the product of a number with a
\* decimal literal (0.3 = 3/10, 0.1 = 1/10, 0.85 = 17/20, 0.88 = 22/25).
\* a * b / c for 0 <= a, 0 <= b <= c, without forming a * b.
MulDiv(a, b, c) == (a \div c) * b + ((a % c) * b) \div c

MulFrac(v, num, den) ==
    IF v >= 0 THEN MulDiv(v, num, den) ELSE -MulDiv(-v, num, den)

RECURSIVE SqrtSearch(_, _, _)
SqrtSearch(n, lo, hi) ==
    IF lo >= hi THEN lo
    ELSE LET mid == (lo + hi + 1) \div 2
         IN  IF mid * mid <= n THEN SqrtSearch(n, mid, hi)
                               ELSE SqrtSearch(n, lo, mid - 1)

\* floor of the square root of n
IntSqrt(n) == SqrtSearch(n, 0, 46340)

\* Math.sqrt(dx * dx + dy * dy)
Hypot(dx, dy) ==
    IF dy = 0 THEN Abs(dx)
    ELSE IF dx = 0 THEN Abs(dy)
    ELSE LET a == Abs(dx) \div Coarse
             b == Abs(dy) \div Coarse
         IN  Max(1, IntSqrt(a * a + b * b)) * Coarse

\* (d / dist) * f : the component along one axis of a force f directed
\* along a vector with that axis component d and length dist > 0.
Project(d, dist, f) ==
    IF d = 0 \/ f = 0 THEN 0
    ELSE IF Abs(d) >= dist THEN Sgn(d) * f
    ELSE LET ratio == ((Abs(d) \div Coarse) * 10000) \div Max(1, dist \div Coarse)
         IN  Sgn(d) * Sgn(f) * MulDiv(Abs(f), IF ratio > 10000 THEN 10000 ELSE ratio, 10000)

\* Math.atan2(dy, dx), kept as the pair of signs of its arguments: the
\* stored angle is read back into an unused local only.
Atan2(dy, dx) == << Sgn(dy), Sgn(dx) >>

(***************************************************************************)
(* Constants of initGraph.                                                 *)
(***************************************************************************)
\* followStrength = 0.3, as numerator and denominator
followStrength == << 3, 10 >>

\* idealDistance, in px
idealDistance == 100

\* repulsionStrength
repulsionStrength == 50

\* the spring factor 0.1 of `springForce = -distanceError * 0.1`
springConstant == << 1, 10 >>

\* the damping 0.85 applied at the end of every move
dampingFactor == << 17, 20 >>

\* Mutation of decayFactor: the damping of a move, 0.85, is used.
decayFactorOfDrag == << 17, 20 >>

\* the damping 0.88 applied by every decay step
decayFactor == << 22, 25 >>

\* the 0.1 of `Math.abs(velocity.x) > 0.1`, in micro-pixels
settleThreshold == Px \div 10

(***************************************************************************)
(* Bounds of the model.                                                    *)
(***************************************************************************)
\* grab and move events in one behaviour
MaxPointerEvents == 3

\* graph reloads in one behaviour
MaxReloads == 1

Nodes == {"a", "b", "c", "d"}

\* pointer displacements of one move event, in px
Deltas == { << 10, 0 >>, << 0, -10 >> }

\* The graphs the page may show: edges in the order cytoscape holds them
\* (source, target), and the position the layout gave every node, in px.
Graphs ==
    { [ edges    |-> << <<"a", "a">>, <<"a", "b">>, <<"c", "a">>, <<"c", "d">> >>,
        position |-> [ n \in Nodes |->
                         CASE n = "a" -> << 0, 0 >>
                           [] n = "b" -> << 10, 0 >>
                           [] n = "c" -> << 10, 0 >>
                           [] n = "d" -> << 40, 40 >> ] ],
      [ edges    |-> << <<"a", "b">>, <<"b", "c">>, <<"d", "d">> >>,
        position |-> [ n \in Nodes |->
                         CASE n = "a" -> << 0, 0 >>
                           [] n = "b" -> << 60, 80 >>
                           [] n = "c" -> << 60, -20 >>
                           [] n = "d" -> << 0, 50 >> ] ] }

\* What a reload may show after an artist was deleted: the first graph
\* without node b.  An id the graph does not hold has position Null.
ReloadGraphs ==
    { [ edges    |-> << <<"a", "a">>, <<"c", "a">>, <<"c", "d">> >>,
        position |-> [ n \in Nodes |->
                         CASE n = "a" -> << 0, 0 >>
                           [] n = "b" -> Null
                           [] n = "c" -> << 10, 0 >>
                           [] n = "d" -> << 40, 40 >> ] ] }

(***************************************************************************)
(* State.                                                                  *)
(***************************************************************************)
VARIABLES
    edges,           \* cy's edges, << source id, target id >>, in order
    position,        \* node.position() of every node, micro-pixels
    scratch,         \* node.scratch(): _velocity, _dragging, _originalDist, _angle
    draggedNode,     \* let draggedNode
    connectedNodes,  \* let connectedNodes: Null or Some(sequence of node ids)
    prevDragPos,     \* let prevDragPos
    animationId,     \* let animationId: Null or Some(handle)
    pendingFrames,   \* requestAnimationFrame callbacks not yet run or cancelled:
                     \* [id: handle, session: the grab count when the loop that
                     \* requested it was started by a release]
    held,            \* the node the pointer holds (cytoscape's grabbed node)
    grabs,           \* history: number of grab events so far
    moves,           \* history: number of pointer moves so far
    lastEvt,         \* history: the event the last step handled
    velOrigin,       \* history: per node, the count of the last grab that
                     \* left it connected with velocity zero (0: none did)
    releaseVel,      \* history: per node, its velocity at the last release
    decaySteps,      \* history: per node, decay steps applied since then
    removed,         \* Null, or Some of the position and scratch of the node
                     \* objects a reload removed from the graph while the
                     \* session variables or the pointer still refer to them
    reloads,         \* history: number of graph reloads so far
    db,              \* the tables of artists.db
    response,        \* the response to the last request the server handled
    requests,        \* history: number of requests handled
    csv              \* the locals of a call of parseCSV

dragVars == << edges, position, scratch, draggedNode, connectedNodes, prevDragPos,
               animationId, pendingFrames, held, grabs, moves, lastEvt, velOrigin,
               releaseVel, decaySteps, removed, reloads >>

dbVars == << db, response, requests >>

csvVars == << csv >>

vars == << dragVars, dbVars, csvVars >>

NoScratch == [ velocity |-> Null, dragging |-> Null, originalDist |-> Null, angle |-> Null ]

NoPointer == "none"

Evt(type, session, delta) == [ type |-> type, session |-> session, delta |-> delta ]

ToMicro(p) == IF IsNull(p) THEN Null ELSE << p[1] * Px, p[2] * Px >>

\* the page after loadGraphData has drawn graph g and nothing was touched
PageInit(g) ==
    /\ edges = g.edges
    /\ position = [ n \in Nodes |-> ToMicro(g.position[n]) ]
    /\ scratch = [ n \in Nodes |-> NoScratch ]
    /\ draggedNode = Null
    /\ connectedNodes = Null
    /\ prevDragPos = Null
    /\ animationId = Null
    /\ pendingFrames = {}
    /\ held = NoPointer
    /\ grabs = 0
    /\ moves = 0
    /\ lastEvt = Evt("init", 0, << 0, 0 >>)
    /\ velOrigin = [ n \in Nodes |-> 0 ]
    /\ releaseVel = [ n \in Nodes |-> Null ]
    /\ decaySteps = [ n \in Nodes |-> 0 ]
    /\ removed = Null
    /\ reloads = 0

\* artists.db right after initDatabase has created the tables.  A table is
\* the sequence of its rows in insertion order; the Seq fields are the
\* AUTOINCREMENT counters.  foreign_keys: whether the connection enforces
\* the FOREIGN KEY clauses; new DatabaseSync(path) turns that on in the
\* Node.js releases that have the enableForeignKeyConstraints option and
\* leaves SQLite's default, off, in the earlier ones.
EmptyDb(foreignKeys) ==
    [ foreign_keys  |-> foreignKeys,
      artists       |-> << >>,
      artistSeq     |-> 0,
      relationships |-> << >>,
      genres        |-> << >>,
      genreSeq      |-> 0,
      artist_genres |-> << >> ]

\* op and arg: the request, as its route and the name or id it is about
\* (the first id for addRelationship); status: the HTTP status of its response (for a
\* direct call of addRelationship 200 for true, 500 for false); ids: the
\* ids of the artist rows the response carries
NoResponse == [ op |-> "none", arg |-> << >>, status |-> 0, ids |-> << >> ]

\* the locals of parseCSV(csvText) before the first iteration of its loop
CsvLocals(csvText) ==
    [ csvText      |-> csvText,
      i            |-> 0,
      rows         |-> << >>,
      currentRow   |-> << >>,
      currentField |-> << >>,
      insideQuotes |-> FALSE,
      returned     |-> FALSE ]

Init ==
    /\ \E g \in Graphs : PageInit(g)
    /\ db = EmptyDb(TRUE)
    /\ response = NoResponse
    /\ requests = 0
    /\ csv = CsvLocals(<< >>)

(***************************************************************************)
(* cy.on('grab')                                                           *)
(***************************************************************************)
Range(s) == { s[i] : i \in 1..Len(s) }

RECURSIVE Unique(_, _)
\* the elements of s in order of first occurrence, after those of acc
Unique(s, acc) ==
    IF s = << >> THEN acc
    ELSE Unique(Tail(s), IF Head(s) \in Range(acc) THEN acc ELSE Append(acc, Head(s)))

RECURSIVE Endpoints(_)
Endpoints(es) ==
    IF es = << >> THEN << >>
    ELSE << Head(es)[1], Head(es)[2] >> \o Endpoints(Tail(es))

\* node.connectedEdges()
ConnectedEdges(n, es) == SelectSeq(es, LAMBDA e : e[1] = n \/ e[2] = n)

\* Mutation of Neighbours: the filter on the dragged node's id is missing.
NeighboursWithSelf(n, es) == Unique(Endpoints(ConnectedEdges(n, es)), << >>)

\* Mutation of Neighbours: only the edges leaving n are followed.
NeighboursOutgoing(n, es) ==
    SelectSeq(Unique(Endpoints(SelectSeq(es, LAMBDA e : e[1] = n)), << >>),
              LAMBDA m : m /= n)

\* draggedNode.connectedEdges().connectedNodes().filter(n => n.id() !== draggedNode.id())
Neighbours(n, es) ==
    SelectSeq(Unique(Endpoints(ConnectedEdges(n, es)), << >>), LAMBDA m : m /= n)

\* Mutation of GrabScratch: the ideal distance is recorded instead of the
\* distance to the dragged node.
GrabScratchIdealDist(pos, dragPos) ==
    LET dx == pos[1] - dragPos[1]
        dy == pos[2] - dragPos[2]
    IN  [ velocity     |-> << 0, 0 >>,
          dragging     |-> Some(TRUE),
          originalDist |-> Some(idealDistance * Px),
          angle        |-> Some(Atan2(dy, dx)) ]

\* the four scratch fields a grab stores on a connected node at pos
GrabScratch(pos, dragPos) ==
    LET dx == pos[1] - dragPos[1]
        dy == pos[2] - dragPos[2]
    IN  [ velocity     |-> << 0, 0 >>,
          dragging     |-> Some(TRUE),
          originalDist |-> Some(Hypot(dx, dy)),
          angle        |-> Some(Atan2(dy, dx)) ]

\* Mutation of GrabNodes: a velocity a node already carries is kept.
GrabNodesKeepVelocity(conn, dragPos, pos, scr) ==
    [ m \in Nodes |->
        IF m \in Range(conn)
        THEN [ GrabScratch(pos[m], dragPos) EXCEPT
                 !.velocity = IF IsNull(scr[m].velocity) THEN @ ELSE scr[m].velocity ]
        ELSE scr[m] ]

\* connectedNodes.forEach(node => ...) of the grab handler
GrabNodes(conn, dragPos, pos, scr) ==
    [ m \in Nodes |->
        IF m \in Range(conn) THEN GrabScratch(pos[m], dragPos) ELSE scr[m] ]

Grab(n) ==
    /\ held = NoPointer
    /\ ~IsNull(position[n])
    /\ grabs + moves < MaxPointerEvents
    /\ LET conn == Neighbours(n, edges)
       IN  /\ draggedNode' = Some(n)
           /\ prevDragPos' = position[n]
           /\ connectedNodes' = Some(conn)
           /\ scratch' = GrabNodes(conn, position[n], position, scratch)
           /\ velOrigin' = [ m \in Nodes |->
                             IF m \in Range(conn) /\ scratch'[m].velocity = << 0, 0 >>
                             THEN grabs + 1 ELSE velOrigin[m] ]
           /\ releaseVel' = [ m \in Nodes |-> IF m \in Range(conn) THEN Null ELSE releaseVel[m] ]
           /\ decaySteps' = [ m \in Nodes |-> IF m \in Range(conn) THEN 0 ELSE decaySteps[m] ]
    /\ held' = n
    /\ grabs' = grabs + 1
    /\ lastEvt' = Evt("grab", grabs + 1, << 0, 0 >>)
    /\ removed' = Null
    /\ UNCHANGED << edges, position, animationId, pendingFrames, moves, reloads >>
    /\ UNCHANGED << dbVars, csvVars >>

(***************************************************************************)
(* cy.on('drag')                                                           *)
(***************************************************************************)
VecAdd(u, v) == << u[1] + v[1], u[2] + v[2] >>

VecScale(v, f) == << MulFrac(v[1], f[1], f[2]), MulFrac(v[2], f[1], f[2]) >>

\* node.scratch('_velocity') || { x: 0, y: 0 }
VelocityOf(s) == IF IsNull(s.velocity) THEN << 0, 0 >> ELSE s.velocity

\* node.scratch('_originalDist') || idealDistance : 0 is falsy as well
OriginalDistOf(s) ==
    IF IsNull(s.originalDist) \/ s.originalDist = Some(0)
    THEN idealDistance * Px
    ELSE s.originalDist[1]

\* Mutation of SpringAlong: the sign of the spring force is reversed.
SpringAlongReversed(dx, dy, currentDist, originalDist) ==
    LET distanceError == currentDist - originalDist
        springForce == MulFrac(distanceError, springConstant[1], springConstant[2])
    IN  << Project(dx, currentDist, springForce), Project(dy, currentDist, springForce) >>

\* lines 832-835: the spring force on a node at distance currentDist > 0
\* from the dragged node, as its components along (dx, dy)
SpringAlong(dx, dy, currentDist, originalDist) ==
    LET distanceError == currentDist - originalDist
        springForce == -MulFrac(distanceError, springConstant[1], springConstant[2])
    IN  << Project(dx, currentDist, springForce), Project(dy, currentDist, springForce) >>

\* Mutation of SpringForce: at distance zero the spring pushes along the
\* x axis instead of being skipped.
SpringForceNoSkip(pos, dragPos, originalDist) ==
    LET dx == pos[1] - dragPos[1]
        dy == pos[2] - dragPos[2]
        currentDist == Hypot(dx, dy)
    IN  IF currentDist > 0
        THEN SpringAlong(dx, dy, currentDist, originalDist)
        ELSE SpringAlong(1, 0, 1, originalDist)

\* 2. the spring term of a node at pos, the dragged node being at dragPos
SpringForce(pos, dragPos, originalDist) ==
    LET dx == pos[1] - dragPos[1]
        dy == pos[2] - dragPos[2]
        currentDist == Hypot(dx, dy)
    IN  IF currentDist > 0
        THEN SpringAlong(dx, dy, currentDist, originalDist)
        ELSE << 0, 0 >>

\* repulsionStrength / (dist2 * dist2), dist2 > 0
RepulsionMagnitude(dist2) ==
    LET r == Max(1, dist2 \div Coarse)
        q == (repulsionStrength * 10000000) \div r
    IN  (q \div r) * 1000 + ((q % r) * 1000) \div r

\* Mutation of Repulsion: a node exactly idealDistance away still repels.
RepulsionInclusive(pos, otherPos) ==
    LET dx2 == pos[1] - otherPos[1]
        dy2 == pos[2] - otherPos[2]
        dist2 == Hypot(dx2, dy2)
    IN  IF dist2 > 0 /\ dist2 <= idealDistance * Px
        THEN LET repulsion == RepulsionMagnitude(dist2)
             IN  << Project(dx2, dist2, repulsion), Project(dy2, dist2, repulsion) >>
        ELSE << 0, 0 >>

\* 3. the repulsion a node at pos receives from another node at otherPos
Repulsion(pos, otherPos) ==
    LET dx2 == pos[1] - otherPos[1]
        dy2 == pos[2] - otherPos[2]
        dist2 == Hypot(dx2, dy2)
    IN  IF dist2 > 0 /\ dist2 < idealDistance * Px
        THEN LET repulsion == RepulsionMagnitude(dist2)
             IN  << Project(dx2, dist2, repulsion), Project(dy2, dist2, repulsion) >>
        ELSE << 0, 0 >>

RECURSIVE RepulsionSum(_, _, _, _)
\* the inner connectedNodes.forEach(otherNode => ...) of node n, from index i
RepulsionSum(n, conn, i, pos) ==
    IF i > Len(conn) THEN << 0, 0 >>
    ELSE VecAdd(IF conn[i] = n THEN << 0, 0 >> ELSE Repulsion(pos[n], pos[conn[i]]),
                RepulsionSum(n, conn, i + 1, pos))

\* Mutation of DragVelocity: the damping is applied before the spring and
\* repulsion terms are added.
DragVelocityDampsFirst(n, conn, dragPos, delta, pos, scr) ==
    LET follow == VecScale(delta, followStrength)
        spring == SpringForce(pos[n], dragPos, OriginalDistOf(scr[n]))
        repel  == RepulsionSum(n, conn, 1, pos)
    IN  VecAdd(VecAdd(VecScale(VecAdd(VelocityOf(scr[n]), follow), dampingFactor), spring),
               repel)

\* the velocity of node n after one pass of the loop body (lines 816-859)
DragVelocity(n, conn, dragPos, delta, pos, scr) ==
    LET follow == VecScale(delta, followStrength)
        spring == SpringForce(pos[n], dragPos, OriginalDistOf(scr[n]))
        repel  == RepulsionSum(n, conn, 1, pos)
    IN  VecScale(VecAdd(VecAdd(VecAdd(VelocityOf(scr[n]), follow), spring), repel),
                 dampingFactor)

RECURSIVE DragNodesSnapshot(_, _, _, _, _, _)
\* Mutation of DragNodes: every node reads the positions all nodes had
\* before the move (a node visited earlier has advanced by its velocity).
DragNodesSnapshot(i, conn, dragPos, delta, pos, scr) ==
    IF i > Len(conn) THEN [ position |-> pos, scratch |-> scr ]
    ELSE LET n == conn[i]
             before == [ k \in Nodes |->
                           IF \E j \in 1..(i - 1) : conn[j] = k
                           THEN << pos[k][1] - scr[k].velocity[1], pos[k][2] - scr[k].velocity[2] >>
                           ELSE pos[k] ]
             velocity == DragVelocity(n, conn, dragPos, delta, before, scr)
         IN  DragNodesSnapshot(i + 1, conn, dragPos, delta,
                               [ pos EXCEPT ![n] = VecAdd(pos[n], velocity) ],
                               [ scr EXCEPT ![n].velocity = velocity ])

RECURSIVE DragNodes(_, _, _, _, _, _)
\* connectedNodes.forEach(node => ...) from index i: every node reads the
\* positions the nodes before it have already been given.
DragNodes(i, conn, dragPos, delta, pos, scr) ==
    IF i > Len(conn) THEN [ position |-> pos, scratch |-> scr ]
    ELSE LET n == conn[i]
             velocity == DragVelocity(n, conn, dragPos, delta, pos, scr)
         IN  DragNodes(i + 1, conn, dragPos, delta,
                       [ pos EXCEPT ![n] = VecAdd(pos[n], velocity) ],
                       [ scr EXCEPT ![n].velocity = velocity ])

\* the node objects the session variables and the pointer refer to: those
\* of the graph, or the ones a reload has removed from it
SessionPosition == IF IsNull(removed) THEN position ELSE removed[1].position

SessionScratch == IF IsNull(removed) THEN scratch ELSE removed[1].scratch

\* node.position(...) and node.scratch(...) on those objects; removed
\* objects nothing refers to any more (keep = FALSE) are dropped
WriteObjects(pos, scr, keep) ==
    IF IsNull(removed)
    THEN /\ position' = pos
         /\ scratch' = scr
         /\ removed' = Null
    ELSE /\ UNCHANGED << position, scratch >>
         /\ removed' = IF keep THEN Some([ position |-> pos, scratch |-> scr ]) ELSE Null

\* Mutation of PointerDelta: the previous pointer position is not subtracted.
PointerDeltaAbsolute(dragPos, prev) == dragPos

\* delta = { x: dragPos.x - prevDragPos.x, y: dragPos.y - prevDragPos.y }
PointerDelta(dragPos, prev) == << dragPos[1] - prev[1], dragPos[2] - prev[2] >>

\* Mutation of Drag: the handler records the pointer position before it
\* tests whether a session is going on.
DragTracksWhenIdle(d) ==
    /\ held /= NoPointer
    /\ grabs + moves < MaxPointerEvents
    /\ moves' = moves + 1
    /\ lastEvt' = Evt("drag", grabs, ToMicro(d))
    /\ LET moved == [ SessionPosition EXCEPT
                        ![held] = VecAdd(SessionPosition[held], ToMicro(d)) ]
       IN  IF IsNull(draggedNode) \/ IsNull(connectedNodes) \/ IsNull(prevDragPos)
           THEN /\ WriteObjects(moved, SessionScratch, TRUE)
                /\ prevDragPos' = moved[held]
           ELSE LET dragPos == moved[draggedNode[1]]
                    delta == PointerDelta(dragPos, prevDragPos)
                    out == DragNodes(1, connectedNodes[1], dragPos, delta, moved,
                                     SessionScratch)
                IN  /\ WriteObjects(out.position, out.scratch, TRUE)
                    /\ prevDragPos' = dragPos
    /\ UNCHANGED << edges, draggedNode, connectedNodes, animationId, pendingFrames,
                    held, grabs, velOrigin, releaseVel, decaySteps, reloads >>
    /\ UNCHANGED << dbVars, csvVars >>

\* The pointer carries the held node by d, then the handler runs.
Drag(d) ==
    /\ held /= NoPointer
    /\ grabs + moves < MaxPointerEvents
    /\ moves' = moves + 1
    /\ lastEvt' = Evt("drag", grabs, ToMicro(d))
    /\ LET moved == [ SessionPosition EXCEPT
                        ![held] = VecAdd(SessionPosition[held], ToMicro(d)) ]
       IN  IF IsNull(draggedNode) \/ IsNull(connectedNodes) \/ IsNull(prevDragPos)
           THEN /\ WriteObjects(moved, SessionScratch, TRUE)
                /\ UNCHANGED prevDragPos
           ELSE LET dragPos == moved[draggedNode[1]]
                    delta == PointerDelta(dragPos, prevDragPos)
                    out == DragNodes(1, connectedNodes[1], dragPos, delta, moved,
                                     SessionScratch)
                IN  /\ WriteObjects(out.position, out.scratch, TRUE)
                    /\ prevDragPos' = dragPos
    /\ UNCHANGED << edges, draggedNode, connectedNodes, animationId, pendingFrames,
                    held, grabs, velOrigin, releaseVel, decaySteps, reloads >>
    /\ UNCHANGED << dbVars, csvVars >>

(***************************************************************************)
(* cy.on('free') and its frame loop `decelerate`                           *)
(***************************************************************************)
\* Mutation of StillMoving: both components must exceed the threshold.
StillMovingOnBothAxes(v) == Abs(v[1]) > settleThreshold /\ Abs(v[2]) > settleThreshold

\* Math.abs(velocity.x) > 0.1 || Math.abs(velocity.y) > 0.1
StillMoving(v) == Abs(v[1]) > settleThreshold \/ Abs(v[2]) > settleThreshold

\* Mutation of Decay: the factor is 1 / 0.88.
DecayGrows(v) == VecScale(v, << decayFactor[2], decayFactor[1] >>)

\* velocity.x *= 0.88; velocity.y *= 0.88
Decay(v) == VecScale(v, decayFactor)

\* Mutation of Decaying: the _dragging flag is not looked at.
DecayingSettledToo(conn, scr) ==
    { n \in Range(conn) : ~IsNull(scr[n].velocity) }

\* the nodes whose velocity one run of the loop at lines 881-902 multiplies
Decaying(conn, scr) ==
    { n \in Range(conn) : scr[n].dragging = Some(TRUE) /\ ~IsNull(scr[n].velocity) }

RECURSIVE DecelerateNodesMovesSettled(_, _, _, _, _)
\* Mutation of DecelerateNodes: a node that settles in this step is still
\* advanced by its decayed velocity.
DecelerateNodesMovesSettled(i, conn, pos, scr, moving) ==
    IF i > Len(conn) THEN [ position |-> pos, scratch |-> scr, stillMoving |-> moving ]
    ELSE LET n == conn[i]
         IN  IF n \notin Decaying(conn, scr)
             THEN DecelerateNodesMovesSettled(i + 1, conn, pos, scr, moving)
             ELSE LET velocity == Decay(scr[n].velocity)
                  IN  IF StillMoving(velocity)
                      THEN DecelerateNodesMovesSettled(i + 1, conn,
                               [ pos EXCEPT ![n] = VecAdd(pos[n], velocity) ],
                               [ scr EXCEPT ![n].velocity = velocity ], TRUE)
                      ELSE DecelerateNodesMovesSettled(i + 1, conn,
                               [ pos EXCEPT ![n] = VecAdd(pos[n], velocity) ],
                               [ scr EXCEPT ![n].velocity = velocity,
                                            ![n].dragging = Some(FALSE) ], moving)

RECURSIVE DecelerateNodes(_, _, _, _, _)
\* connectedNodes.forEach(node => ...) of decelerate, from index i
DecelerateNodes(i, conn, pos, scr, moving) ==
    IF i > Len(conn) THEN [ position |-> pos, scratch |-> scr, stillMoving |-> moving ]
    ELSE LET n == conn[i]
         IN  IF n \notin Decaying(conn, scr)
             THEN DecelerateNodes(i + 1, conn, pos, scr, moving)
             ELSE LET velocity == Decay(scr[n].velocity)
                  IN  IF StillMoving(velocity)
                      THEN DecelerateNodes(i + 1, conn,
                               [ pos EXCEPT ![n] = VecAdd(pos[n], velocity) ],
                               [ scr EXCEPT ![n].velocity = velocity ], TRUE)
                      ELSE DecelerateNodes(i + 1, conn, pos,
                               [ scr EXCEPT ![n].velocity = velocity,
                                            ![n].dragging = Some(FALSE) ], moving)

\* Mutation of Cleanup: the scratch fields are left on the nodes.
CleanupKeepsScratch(conn, scr) == scr

\* the removeScratch calls of the cleanup branch
Cleanup(conn, scr) == [ n \in Nodes |-> IF n \in Range(conn) THEN NoScratch ELSE scr[n] ]

\* requestAnimationFrame's handle: one no pending callback has
FreshId(pending) ==
    CHOOSE i \in 1..(Cardinality(pending) + 1) :
        /\ \A f \in pending : f.id /= i
        /\ \A j \in 1..(i - 1) : \E f \in pending : f.id = j

\* One run of decelerate, in a loop started by the release of `session`,
\* with `pending` the callbacks still to run; pointerHolds: the pointer
\* still holds a node after this run.
Decelerate(session, pending, pointerHolds) ==
    LET conn == connectedNodes[1]
        out  == DecelerateNodes(1, conn, SessionPosition, SessionScratch, FALSE)
    IN  /\ decaySteps' = [ n \in Nodes |->
                             IF n \in Decaying(conn, SessionScratch) /\ ~IsNull(releaseVel'[n])
                             THEN (IF lastEvt'.type = "free" THEN 0 ELSE decaySteps[n]) + 1
                             ELSE decaySteps[n] ]
        /\ IF out.stillMoving
           THEN /\ WriteObjects(out.position, out.scratch, TRUE)
                /\ animationId' = Some(FreshId(pending))
                /\ pendingFrames' =
                       pending \cup { [ id |-> FreshId(pending), session |-> session ] }
                /\ UNCHANGED << draggedNode, connectedNodes, prevDragPos >>
           ELSE /\ WriteObjects(out.position, Cleanup(conn, out.scratch), pointerHolds)
                /\ draggedNode' = Null
                /\ connectedNodes' = Null
                /\ prevDragPos' = Null
                /\ pendingFrames' = pending
                /\ UNCHANGED animationId

\* A release that leaves the callback requested before it pending.
CancelFrameNever(pending, handle) == pending

\* cancelAnimationFrame(animationId)
CancelFrame(pending, handle) ==
    IF IsNull(handle) THEN pending ELSE { f \in pending : f.id /= handle[1] }

Free ==
    /\ held /= NoPointer
    /\ held' = NoPointer
    /\ lastEvt' = Evt("free", grabs, << 0, 0 >>)
    /\ IF IsNull(draggedNode) \/ IsNull(connectedNodes)
       THEN /\ removed' = Null
            /\ UNCHANGED << position, scratch, draggedNode, connectedNodes, prevDragPos,
                            animationId, pendingFrames, releaseVel, decaySteps >>
       ELSE /\ releaseVel' = [ n \in Nodes |->
                                 IF n \in Range(connectedNodes[1])
                                 THEN VelocityOf(SessionScratch[n]) ELSE releaseVel[n] ]
            /\ Decelerate(grabs, CancelFrame(pendingFrames, animationId), FALSE)
    /\ UNCHANGED << edges, grabs, moves, velOrigin, reloads >>
    /\ UNCHANGED << dbVars, csvVars >>

\* The browser runs a pending animation-frame callback.
Frame ==
    \E f \in pendingFrames :
        /\ lastEvt' = Evt("frame", f.session, << 0, 0 >>)
        /\ UNCHANGED releaseVel
        /\ IF IsNull(connectedNodes)
           THEN /\ pendingFrames' = pendingFrames \ {f}
                /\ UNCHANGED << position, scratch, draggedNode, connectedNodes,
                                prevDragPos, animationId, decaySteps, removed >>
           ELSE Decelerate(f.session, pendingFrames \ {f}, held /= NoPointer)
        /\ UNCHANGED << edges, held, grabs, moves, velOrigin, reloads >>
        /\ UNCHANGED << dbVars, csvVars >>

Next ==
    \/ \E n \in Nodes : Grab(n)
    \/ \E d \in Deltas : Drag(d)
    \/ Free
    \/ Frame

Spec == Init /\ [][Next]_vars

\* The browser runs every requested animation frame that is not cancelled.
FairSpec == Spec /\ WF_vars(Frame)

(***************************************************************************)
(* loadGraphData                                                           *)
(***************************************************************************)
\* cy.elements().remove(); cy.add([...nodes, ...edges]); layout.run() with
\* the artists and relationships of g.  The handlers of initGraph are not
\* told: the session variables and the pointer keep the node objects they
\* hold, which are no longer in the graph.
Reload(g) ==
    /\ reloads < MaxReloads
    /\ reloads' = reloads + 1
    /\ edges' = g.edges
    /\ position' = [ n \in Nodes |-> ToMicro(g.position[n]) ]
    /\ scratch' = [ n \in Nodes |-> NoScratch ]
    /\ removed' = IF IsNull(draggedNode) /\ held = NoPointer THEN Null
                  ELSE IF IsNull(removed)
                       THEN Some([ position |-> position, scratch |-> scratch ])
                       ELSE removed
    /\ lastEvt' = Evt("load", grabs, << 0, 0 >>)
    /\ UNCHANGED << draggedNode, connectedNodes, prevDragPos, animationId, pendingFrames,
                    held, grabs, moves, velOrigin, releaseVel, decaySteps >>
    /\ UNCHANGED << dbVars, csvVars >>

NextWithReload ==
    \/ Next
    \/ \E g \in ReloadGraphs : Reload(g)

ReloadSpec == Init /\ [][NextWithReload]_vars

(***************************************************************************)
(* A session about to be released.                                         *)
(***************************************************************************)
\* velocities a connected node may carry when the pointer is released
ReleaseVelocities ==
    { << Px, 0 >>, << Px \div 10, 0 >>, << 0, -(Px \div 20) >>,
      << 2 * Px, -Px >>, << -3 * Px, 3 * Px >> }

\* Node a of the graph a-b, b-c is held after one move; its one connected
\* node b carries a velocity of ReleaseVelocities.
DecayInit ==
    /\ edges = << <<"a", "b">>, <<"b", "c">> >>
    /\ position = [ n \in Nodes |->
                      ToMicro(CASE n = "a" -> << 10, 0 >>
                                [] n = "b" -> << 60, 80 >>
                                [] n = "c" -> << 60, -20 >>
                                [] n = "d" -> << 0, 50 >>) ]
    /\ \E v \in ReleaseVelocities :
         scratch = [ n \in Nodes |->
                       IF n = "b"
                       THEN [ velocity     |-> v,
                              dragging     |-> Some(TRUE),
                              originalDist |-> Some(idealDistance * Px),
                              angle        |-> Some(Atan2(80, 60)) ]
                       ELSE NoScratch ]
    /\ draggedNode = Some("a")
    /\ connectedNodes = Some(<< "b" >>)
    /\ prevDragPos = ToMicro(<< 10, 0 >>)
    /\ animationId = Null
    /\ pendingFrames = {}
    /\ held = "a"
    /\ grabs = 1
    /\ moves = 1
    /\ lastEvt = Evt("drag", 1, ToMicro(<< 10, 0 >>))
    /\ velOrigin = [ n \in Nodes |-> IF n = "b" THEN 1 ELSE 0 ]
    /\ releaseVel = [ n \in Nodes |-> Null ]
    /\ decaySteps = [ n \in Nodes |-> 0 ]
    /\ removed = Null
    /\ reloads = 0
    /\ db = EmptyDb(TRUE)
    /\ response = NoResponse
    /\ requests = 0
    /\ csv = CsvLocals(<< >>)

DecaySpec == DecayInit /\ [][Next]_vars

(***************************************************************************)
(* A grab during the deceleration of the session before.                   *)
(***************************************************************************)
\* where b stands at that grab, in px
RegrabPositions == { << 60, 80 >> }

\* In the graph a-b, b-c node a, at (10, 0), was grabbed, moved and
\* released, and has just been grabbed again while the frame requested by
\* the release is still pending.  The grab has reset the fields of b.  The
\* released session counts as session 0: grabs and moves count the events
\* from its release on.
RegrabInit ==
    /\ edges = << <<"a", "b">>, <<"b", "c">> >>
    /\ \E p \in RegrabPositions :
         /\ position = [ n \in Nodes |->
                           ToMicro(CASE n = "a" -> << 10, 0 >>
                                     [] n = "b" -> p
                                     [] n = "c" -> << 60, -20 >>
                                     [] n = "d" -> << 0, 50 >>) ]
         /\ scratch = [ n \in Nodes |->
                          IF n = "b" THEN GrabScratch(ToMicro(p), ToMicro(<< 10, 0 >>))
                                     ELSE NoScratch ]
    /\ draggedNode = Some("a")
    /\ connectedNodes = Some(<< "b" >>)
    /\ prevDragPos = ToMicro(<< 10, 0 >>)
    /\ animationId = Some(1)
    /\ pendingFrames = { [ id |-> 1, session |-> 0 ] }
    /\ held = "a"
    /\ grabs = 1
    /\ moves = 0
    /\ lastEvt = Evt("grab", 1, << 0, 0 >>)
    /\ velOrigin = [ n \in Nodes |-> IF n = "b" THEN 1 ELSE 0 ]
    /\ releaseVel = [ n \in Nodes |-> Null ]
    /\ decaySteps = [ n \in Nodes |-> 0 ]
    /\ removed = Null
    /\ reloads = 0
    /\ db = EmptyDb(TRUE)
    /\ response = NoResponse
    /\ requests = 0
    /\ csv = CsvLocals(<< >>)

RegrabSpec == RegrabInit /\ [][Next]_vars

(***************************************************************************)
(* Layouts and pointer moves that exercise every term of the move handler. *)
(***************************************************************************)
\* pointer displacements of one move event, in px
ForceDeltas == { << 50, 0 >>, << -50, 0 >>, << 0, 30 >> }

\* First layout: a-b with b at distance 65 from a, placed so that a move of
\* a by (50, 0) leaves the distance at 65.  Second layout: a star around a
\* with b and c exactly 100 apart and d on top of a.
ForceGraphs ==
    { [ edges    |-> << <<"a", "b">> >>,
        position |-> [ n \in Nodes |->
                         CASE n = "a" -> << 0, 0 >>
                           [] n = "b" -> << 25, 60 >>
                           [] n = "c" -> << 0, -50 >>
                           [] n = "d" -> << 0, 0 >> ] ],
      [ edges    |-> << <<"a", "b">>, <<"a", "c">>, <<"a", "d">> >>,
        position |-> [ n \in Nodes |->
                         CASE n = "a" -> << 0, 0 >>
                           [] n = "b" -> << 0, 50 >>
                           [] n = "c" -> << 0, -50 >>
                           [] n = "d" -> << 0, 0 >> ] ] }

ForceInit ==
    /\ \E g \in ForceGraphs : PageInit(g)
    /\ db = EmptyDb(TRUE)
    /\ response = NoResponse
    /\ requests = 0
    /\ csv = CsvLocals(<< >>)

ForceNext ==
    \/ \E n \in Nodes : Grab(n)
    \/ \E d \in ForceDeltas : Drag(d)
    \/ Free
    \/ Frame

ForceSpec == ForceInit /\ [][ForceNext]_vars

(***************************************************************************)
(* A layout in which the order of the update shows and one in which it     *)
(* does not.                                                               *)
(***************************************************************************)
\* pointer displacements of one move event, in px
OrderDeltas == { << 5, 0 >>, << -5, 0 >> }

\* b and c, both connected to a, stand 5 apart on the line through a.
OrderGraphs ==
    { [ edges    |-> << <<"a", "b">>, <<"a", "c">> >>,
        position |-> [ n \in Nodes |->
                         CASE n = "a" -> << 0, 0 >>
                           [] n = "b" -> << 60, 0 >>
                           [] n = "c" -> << 65, 0 >>
                           [] n = "d" -> << 0, 200 >> ] ] }

OrderInit ==
    /\ \E g \in OrderGraphs : PageInit(g)
    /\ db = EmptyDb(TRUE)
    /\ response = NoResponse
    /\ requests = 0
    /\ csv = CsvLocals(<< >>)

OrderNext ==
    \/ \E n \in Nodes : Grab(n)
    \/ \E d \in OrderDeltas : Drag(d)
    \/ Free
    \/ Frame

OrderSpec == OrderInit /\ [][OrderNext]_vars

(***************************************************************************)
(* database.js and the routes of server.js.  A text is the sequence of its *)
(* characters.  Rows carry the columns the routes below read or write:     *)
(* artists (id, name, location, rating), relationships (artist_id,         *)
(* related_artist_id), genres (id, name), artist_genres (artist_id,        *)
(* genre_id).                                                              *)
(***************************************************************************)
\* requests in one behaviour
MaxRequests == 3

Whitespace == { " ", "\n", "\r", "\t" }

RECURSIVE TrimStart(_)
TrimStart(t) ==
    IF t = << >> \/ Head(t) \notin Whitespace THEN t ELSE TrimStart(Tail(t))

RECURSIVE TrimEnd(_)
TrimEnd(t) ==
    IF t = << >> \/ t[Len(t)] \notin Whitespace THEN t
    ELSE TrimEnd(SubSeq(t, 1, Len(t) - 1))

\* String.prototype.trim
Trim(t) == TrimEnd(TrimStart(t))

\* one element of relatedArtists, or the body of POST /api/artists; Null
\* is a field the request does not have
Artist(name, location, rating, genres) ==
    [ name |-> name, location |-> location, rating |-> rating, genres |-> genres ]

Named(name) == Artist(name, Null, Null, Null)

\* the bodies a POST /api/artists may carry
ArtistBodies ==
    { Named(<< "x" >>), Named(<< " ", "x" >>), Named(<< "y" >>), Named(<< >>),
      Artist(<< "x" >>, Some(<< "U", "K" >>), Some(7), << << "g" >>, << " " >> >>),
      Artist(<< "y" >>, Null, Null, << >>) }

\* the arrays a POST /api/artists/:id/related may carry as relatedArtists
RelatedLists ==
    { << Named(<< "x" >>) >>,
      << Named(<< "y" >>), Named(<< " " >>) >>,
      << Named(<< " ", "x", " " >>), Named(<< "y" >>), Named(<< "z" >>) >>,
      << Artist(<< "z" >>, Some(<< "U", "K" >>), Null, << << "g" >> >>) >> }

\* ids a request may name: those of rows that may exist, and 9, which never exists
ArtistIds == { 1, 2, 3, 9 }

\* the artists rows with this name
ArtistsByName(d, name) == SelectSeq(d.artists, LAMBDA r : r.name = name)

\* the artists rows with this id
ArtistsById(d, id) == SelectSeq(d.artists, LAMBDA r : r.id = id)

\* INSERT INTO artists (name, location): name is UNIQUE, so the statement
\* throws when a row has it; the id is the next AUTOINCREMENT value
InsertArtist(d, name, location) ==
    IF ArtistsByName(d, name) /= << >>
    THEN [ db |-> d, row |-> Null, thrown |-> TRUE ]
    ELSE LET row == [ id |-> d.artistSeq + 1, name |-> name,
                      location |-> location, rating |-> 0 ]
         IN  [ db     |-> [ d EXCEPT !.artists = Append(@, row), !.artistSeq = @ + 1 ],
               row    |-> Some(row),
               thrown |-> FALSE ]

\* Mutation of getOrCreateArtist: the row is inserted without a lookup.
getOrCreateArtistNoLookup(d, name, location) == InsertArtist(d, name, location)

getOrCreateArtist(d, name, location) ==
    LET existing == ArtistsByName(d, name)
    IN  IF existing /= << >>
        THEN [ db |-> d, row |-> Some(existing[1]), thrown |-> FALSE ]
        ELSE InsertArtist(d, name, location)

\* updateArtist(id, { rating, explored, location }), explored left out
updateArtist(d, id, rating, location) ==
    [ d EXCEPT !.artists =
        [ i \in DOMAIN @ |->
            IF @[i].id = id
            THEN [ @[i] EXCEPT !.rating = IF IsNull(rating) THEN @ ELSE rating[1],
                               !.location = IF IsNull(location) THEN @ ELSE location ]
            ELSE @[i] ] ]

\* getOrCreateGenre: the id of the genre, 0 for a name that trims to nothing
getOrCreateGenre(d, name) ==
    LET trimmedName == Trim(name)
        existing == SelectSeq(d.genres, LAMBDA g : g.name = trimmedName)
    IN  IF trimmedName = << >> THEN [ db |-> d, id |-> 0 ]
        ELSE IF existing /= << >> THEN [ db |-> d, id |-> existing[1].id ]
        ELSE [ db |-> [ d EXCEPT !.genres = Append(@, [ id |-> d.genreSeq + 1,
                                                        name |-> trimmedName ]),
                                 !.genreSeq = @ + 1 ],
               id |-> d.genreSeq + 1 ]

\* INSERT OR IGNORE of a row into a table with a UNIQUE constraint on the row
InsertOrIgnore(rows, row) ==
    IF \E i \in 1..Len(rows) : rows[i] = row THEN rows ELSE Append(rows, row)

addGenreToArtist(d, artistId, genreName) ==
    LET genre == getOrCreateGenre(d, genreName)
    IN  IF genre.id = 0 THEN d
        ELSE [ genre.db EXCEPT
                 !.artist_genres = InsertOrIgnore(@, << artistId, genre.id >>) ]

RECURSIVE AddGenres(_, _, _)
\* genreNames.forEach(genreName => addGenreToArtist(artistId, genreName))
AddGenres(d, artistId, genreNames) ==
    IF genreNames = << >> THEN d
    ELSE AddGenres(addGenreToArtist(d, artistId, Head(genreNames)), artistId,
                   Tail(genreNames))

setArtistGenres(d, artistId, genreNames) ==
    AddGenres([ d EXCEPT !.artist_genres = SelectSeq(@, LAMBDA r : r[1] /= artistId) ],
              artistId, genreNames)

\* Mutation of addRelationship: only the row (artistId, relatedArtistId) is inserted.
addRelationshipOneWay(d, artistId, relatedArtistId) ==
    IF d.foreign_keys /\ (ArtistsById(d, artistId) = << >> \/ ArtistsById(d, relatedArtistId) = << >>)
    THEN [ db |-> d, ok |-> FALSE ]
    ELSE [ db |-> [ d EXCEPT !.relationships =
                      InsertOrIgnore(@, << artistId, relatedArtistId >>) ],
           ok |-> TRUE ]

\* addRelationship: both columns are foreign keys into artists; where they
\* are enforced the first INSERT throws for an id with no row and the
\* function returns false with nothing inserted
addRelationship(d, artistId, relatedArtistId) ==
    IF d.foreign_keys /\ (ArtistsById(d, artistId) = << >> \/ ArtistsById(d, relatedArtistId) = << >>)
    THEN [ db |-> d, ok |-> FALSE ]
    ELSE [ db |-> [ d EXCEPT !.relationships =
                      InsertOrIgnore(InsertOrIgnore(@, << artistId, relatedArtistId >>),
                                     << relatedArtistId, artistId >>) ],
           ok |-> TRUE ]

\* Mutation of deleteArtist: only the rows with artist_id = id are deleted
\* from relationships.
deleteArtistOwnRows(d, id) ==
    LET d1 == [ d EXCEPT !.relationships = SelectSeq(@, LAMBDA r : r[1] /= id) ]
        d2 == [ d1 EXCEPT !.artist_genres = SelectSeq(@, LAMBDA r : r[1] /= id) ]
    IN  IF d.foreign_keys /\ \E i \in 1..Len(d2.relationships) : d2.relationships[i][2] = id
        THEN [ db |-> d2, thrown |-> TRUE ]
        ELSE [ db |-> [ d2 EXCEPT !.artists = SelectSeq(@, LAMBDA r : r.id /= id) ],
               thrown |-> FALSE ]

\* deleteArtist: the three DELETE statements in turn; with foreign keys
\* enforced the last one throws if a relationships row still refers to the
\* artist
deleteArtist(d, id) ==
    LET d1 == [ d EXCEPT !.relationships = SelectSeq(@, LAMBDA r : r[1] /= id /\ r[2] /= id) ]
        d2 == [ d1 EXCEPT !.artist_genres = SelectSeq(@, LAMBDA r : r[1] /= id) ]
    IN  IF d.foreign_keys /\ \E i \in 1..Len(d2.relationships) :
               d2.relationships[i][1] = id \/ d2.relationships[i][2] = id
        THEN [ db |-> d2, thrown |-> TRUE ]
        ELSE [ db |-> [ d2 EXCEPT !.artists = SelectSeq(@, LAMBDA r : r.id /= id) ],
               thrown |-> FALSE ]

Respond(op, arg, status, ids) == [ op |-> op, arg |-> arg, status |-> status, ids |-> ids ]

\* app.post('/api/artists')
PostArtist(body) ==
    /\ requests < MaxRequests
    /\ requests' = requests + 1
    /\ IF body.name = << >>
       THEN /\ response' = Respond("POST /api/artists", body.name, 400, << >>)
            /\ db' = db
       ELSE LET got == getOrCreateArtist(db, body.name, body.location)
            IN  IF got.thrown
                THEN /\ response' = Respond("POST /api/artists", body.name, 500, << >>)
                     /\ db' = got.db
                ELSE LET artist  == got.row[1]
                         updated == IF ~IsNull(body.rating)
                                    THEN updateArtist(got.db, artist.id, body.rating,
                                                      body.location)
                                    ELSE got.db
                     IN  /\ db' = IF ~IsNull(body.genres)
                                  THEN setArtistGenres(updated, artist.id, body.genres)
                                  ELSE updated
                         /\ response' = Respond("POST /api/artists", body.name, 200,
                                                << artist.id >>)
    /\ UNCHANGED << dragVars, csvVars >>

RECURSIVE AddRelated(_, _, _, _)
\* the loop of app.post('/api/artists/:id/related') over the rest of
\* relatedArtists: the tables, the ids of results, and whether a call threw
AddRelated(d, artistId, relatedArtists, results) ==
    IF relatedArtists = << >> THEN [ db |-> d, results |-> results, thrown |-> FALSE ]
    ELSE LET item == Head(relatedArtists)
             name == Trim(item.name)
         IN  IF name = << >>
             THEN AddRelated(d, artistId, Tail(relatedArtists), results)
             ELSE LET location == IF IsNull(item.location) \/ Trim(item.location[1]) = << >>
                                  THEN Null ELSE Some(Trim(item.location[1]))
                      got == getOrCreateArtist(d, name, location)
                  IN  IF got.thrown
                      THEN [ db |-> got.db, results |-> results, thrown |-> TRUE ]
                      ELSE LET relatedArtist == got.row[1]
                               d1 == IF ~IsNull(item.genres) /\ item.genres /= << >>
                                     THEN setArtistGenres(got.db, relatedArtist.id, item.genres)
                                     ELSE got.db
                           IN  IF relatedArtist.id /= artistId
                               THEN AddRelated(addRelationship(d1, artistId, relatedArtist.id).db,
                                               artistId, Tail(relatedArtists),
                                               Append(results, relatedArtist.id))
                               ELSE AddRelated(d1, artistId, Tail(relatedArtists), results)

\* app.post('/api/artists/:id/related')
PostRelated(artistId, relatedArtists) ==
    /\ requests < MaxRequests
    /\ requests' = requests + 1
    /\ LET out == AddRelated(db, artistId, relatedArtists, << >>)
       IN  /\ db' = out.db
           /\ response' = Respond("POST /api/artists/:id/related", artistId,
                                  IF out.thrown THEN 500 ELSE 200, out.results)
    /\ UNCHANGED << dragVars, csvVars >>

\* app.delete('/api/artists/:id')
DeleteArtistRequest(id) ==
    /\ requests < MaxRequests
    /\ requests' = requests + 1
    /\ LET out == deleteArtist(db, id)
       IN  /\ db' = out.db
           /\ response' = Respond("DELETE /api/artists/:id", id,
                                  IF out.thrown THEN 500 ELSE 200, << >>)
    /\ UNCHANGED << dragVars, csvVars >>

\* a call of the exported addRelationship
AddRelationshipCall(artistId, relatedArtistId) ==
    /\ requests < MaxRequests
    /\ requests' = requests + 1
    /\ LET out == addRelationship(db, artistId, relatedArtistId)
       IN  /\ db' = out.db
           /\ response' = Respond("addRelationship", artistId,
                                  IF out.ok THEN 200 ELSE 500, << >>)
    /\ UNCHANGED << dragVars, csvVars >>

DbNext ==
    \/ \E body \in ArtistBodies : PostArtist(body)
    \/ \E id \in ArtistIds, relatedArtists \in RelatedLists : PostRelated(id, relatedArtists)
    \/ \E id \in ArtistIds : DeleteArtistRequest(id)
    \/ \E a \in ArtistIds, b \in ArtistIds : AddRelationshipCall(a, b)

\* app.put('/api/artists/:id'): rating and location of the body, explored
\* left out as in updateArtist
PutArtist(id, body) ==
    /\ requests < MaxRequests
    /\ requests' = requests + 1
    /\ db' = updateArtist(db, id, body.rating, body.location)
    /\ response' = Respond("PUT /api/artists/:id", id, 200,
                           IF ArtistsById(db, id) = << >> THEN << >> ELSE << id >>)
    /\ UNCHANGED << dragVars, csvVars >>

\* the requests of the HTTP API that write to the database
ApiNext ==
    \/ \E body \in ArtistBodies : PostArtist(body)
    \/ \E id \in ArtistIds, body \in ArtistBodies : PutArtist(id, body)
    \/ \E id \in ArtistIds, relatedArtists \in RelatedLists : PostRelated(id, relatedArtists)
    \/ \E id \in ArtistIds : DeleteArtistRequest(id)

\* the page before its first loadGraphData: the graph has no element
NoGraph == [ edges |-> << >>, position |-> [ n \in Nodes |-> Null ] ]

\* the server has opened a new database; no page is involved
DbInit ==
    /\ PageInit(NoGraph)
    /\ \E foreignKeys \in BOOLEAN : db = EmptyDb(foreignKeys)
    /\ response = NoResponse
    /\ requests = 0
    /\ csv = CsvLocals(<< >>)

DbSpec == DbInit /\ [][DbNext]_vars

\* the server behind its HTTP API only
ApiSpec == DbInit /\ [][ApiNext]_vars

(***************************************************************************)
(* parseCSV(csvText): one action per iteration of its for loop, one for    *)
(* the statements after the loop.                                          *)
(***************************************************************************)
\* length of csvText
MaxCsvLen == 5

Characters == { "a", ",", "\"", "\n", "\r", " " }

RECURSIVE Texts(_)
\* the texts of exactly n characters
Texts(n) ==
    IF n = 0 THEN { << >> }
    ELSE { Append(t, ch) : t \in Texts(n - 1), ch \in Characters }

CsvTexts == UNION { Texts(n) : n \in 0..MaxCsvLen }

\* csvText[k] for the JavaScript index k; "" stands for undefined
CharAt(csvText, k) == IF k + 1 <= Len(csvText) THEN csvText[k + 1] ELSE ""

\* insideQuotes && nextChar === '"'
EscapedQuote(c) == c.insideQuotes /\ CharAt(c.csvText, c.i + 1) = "\""

\* Mutation of EndsField: a comma ends the field inside quotes as well.
EndsFieldInQuotes(c, char) == char = ","

\* char === ',' && !insideQuotes
EndsField(c, char) == char = "," /\ ~c.insideQuotes

\* (char === '\n' || char === '\r') && !insideQuotes
EndsRow(c, char) == char \in { "\n", "\r" } /\ ~c.insideQuotes

\* currentRow.push(currentField.trim()); rows.push(currentRow) if some field
\* is not empty
PushRow(c) ==
    LET row == Append(c.currentRow, Trim(c.currentField))
    IN  IF \E k \in 1..Len(row) : row[k] /= << >> THEN Append(c.rows, row) ELSE c.rows

\* the body of the for loop with its i++, on the locals c
LoopBody(c) ==
    LET char == CharAt(c.csvText, c.i)
        nextChar == CharAt(c.csvText, c.i + 1)
    IN  IF char = "\""
        THEN IF EscapedQuote(c)
             THEN [ c EXCEPT !.currentField = Append(@, "\""), !.i = @ + 2 ]
             ELSE [ c EXCEPT !.insideQuotes = ~@, !.i = @ + 1 ]
        ELSE IF EndsField(c, char)
        THEN [ c EXCEPT !.currentRow = Append(@, Trim(c.currentField)),
                        !.currentField = << >>,
                        !.i = @ + 1 ]
        ELSE IF EndsRow(c, char)
        THEN LET next == c.i + (IF char = "\r" /\ nextChar = "\n" THEN 2 ELSE 1)
             IN  IF c.currentField /= << >> \/ Len(c.currentRow) > 0
                 THEN [ c EXCEPT !.rows = PushRow(c),
                                 !.currentRow = << >>,
                                 !.currentField = << >>,
                                 !.i = next ]
                 ELSE [ c EXCEPT !.i = next ]
        ELSE [ c EXCEPT !.currentField = Append(@, char), !.i = @ + 1 ]

CsvStep ==
    /\ ~csv.returned
    /\ csv.i < Len(csv.csvText)
    /\ csv' = LoopBody(csv)
    /\ UNCHANGED << dragVars, dbVars >>

\* "Add last field and row if any" and the return
CsvReturn ==
    /\ ~csv.returned
    /\ csv.i >= Len(csv.csvText)
    /\ csv' = IF csv.currentField /= << >> \/ Len(csv.currentRow) > 0
              THEN [ csv EXCEPT !.rows = PushRow(csv),
                                !.currentRow = Append(@, Trim(csv.currentField)),
                                !.returned = TRUE ]
              ELSE [ csv EXCEPT !.returned = TRUE ]
    /\ UNCHANGED << dragVars, dbVars >>

CsvNext == CsvStep \/ CsvReturn

\* parseCSV has been called with some text
CsvInit ==
    /\ PageInit(NoGraph)
    /\ db = EmptyDb(TRUE) /\ response = NoResponse /\ requests = 0
    /\ \E csvText \in CsvTexts : csv = CsvLocals(csvText)

CsvSpec == CsvInit /\ [][CsvNext]_vars

(***************************************************************************)
(* States of the session controller.                                       *)
(***************************************************************************)
Idle == IsNull(draggedNode)

Dragging == ~IsNull(draggedNode) /\ held /= NoPointer

Decelerating == ~IsNull(draggedNode) /\ held = NoPointer

\* the connected set of the session, empty when there is none
Connected == IF IsNull(connectedNodes) THEN {} ELSE Range(connectedNodes[1])

\* the step just taken ran a frame callback of a loop that a release
\* before the latest grab started
StaleFrame == lastEvt.type = "frame" /\ lastEvt.session < grabs

HasResidue(n) ==
    /\ ~IsNull(scratch[n].velocity)
    /\ scratch[n].velocity /= << 0, 0 >>
    /\ velOrigin[n] < grabs

(***************************************************************************)
(* Claims.                                                                 *)
(***************************************************************************)
\* C1: a decay frame of an earlier session that runs after a later grab
\* changes no position, no scratch field and no session variable.
C1_StaleFrameChangesNothing ==
    [][ StaleFrame' =>
          UNCHANGED << position, scratch, draggedNode, connectedNodes, prevDragPos >> ]_vars

\* C2: after a grab, no step advances a node by a velocity that holds
\* anything accumulated before that grab: a node whose position a move, a
\* release or a decay frame changes had its velocity set to zero by the
\* latest grab.
C2_NoResidualVelocityApplied ==
    [][ \A n \in Nodes :
          ( /\ lastEvt'.type \in {"drag", "free", "frame"}
            /\ position'[n] /= position[n]
            /\ ~(lastEvt'.type = "drag" /\ n = held) )
          => velOrigin[n] = grabs ]_vars

\* C2 witness: a grab has pre-empted a decelerating session, a node of that
\* session still carries its velocity, and a frame has run since.
C2_Witness ==
    /\ grabs >= 2
    /\ lastEvt.type = "frame"
    /\ \E n \in Nodes : HasResidue(n)

\* C3: between a grab and its release the session stays active with the
\* connected set, the dragged node and a previous pointer position.
C3_SessionFrozenWhileHeld ==
    [][ (held /= NoPointer /\ held' /= NoPointer /\ ~IsNull(connectedNodes))
        => /\ connectedNodes' = connectedNodes
           /\ draggedNode' = draggedNode
           /\ ~IsNull(prevDragPos') ]_vars

\* C5: a node that carries a scratch field is in the connected set of the
\* current session; with no session no node carries any.
C5_TransientOnlyOnConnected ==
    \A n \in Nodes : scratch[n] /= NoScratch => n \in Connected

\* C6: after a grab of N the connected set is exactly the set of nodes other
\* than N that share an edge with N.
C6_ConnectedSetIsNeighbourhood ==
    lastEvt.type = "grab" =>
        LET N == draggedNode[1]
        IN  /\ N \notin Connected
            /\ Connected = { m \in Nodes \ {N} :
                               \E i \in 1..Len(edges) :
                                   edges[i] = << N, m >> \/ edges[i] = << m, N >> }

\* C6 witness: a node with a self-loop and neighbours on edges of both
\* directions has been grabbed.
C6_Witness ==
    /\ lastEvt.type = "grab"
    /\ \E i \in 1..Len(edges) : edges[i] = << draggedNode[1], draggedNode[1] >>
    /\ Cardinality(Connected) = 2

\* C7: a grab, move, release or frame changes the position of a node only if the node is in the
\* connected set of the session and is not the dragged node; the one other
\* change is the pointer carrying the held node by the move's displacement.
C7_OnlyConnectedNodesAreMoved ==
    [][ \A n \in Nodes :
          (lastEvt'.type \in {"grab", "drag", "free", "frame"} /\ position'[n] /= position[n])
          => IF lastEvt'.type = "drag" /\ n = held
             THEN position'[n] = VecAdd(position[n], lastEvt'.delta)
             ELSE n \in Connected /\ draggedNode /= Some(n) ]_vars

\* C7 witness: a move has changed the position of a connected node while
\* another node is outside the connected set.
C7_Witness ==
    /\ lastEvt.type = "drag"
    /\ \E n \in Connected : scratch[n].velocity /= << 0, 0 >>
    /\ \E m \in Nodes : m \notin Connected /\ Some(m) /= draggedNode

\* the session left by the latest grab is gone and nothing of it remains
IdleAndClean ==
    /\ IsNull(draggedNode)
    /\ IsNull(connectedNodes)
    /\ IsNull(prevDragPos)
    /\ pendingFrames = {}
    /\ \A n \in Nodes : velOrigin[n] = grabs => scratch[n] = NoScratch

\* C4: a released session that no grab interrupts reaches Idle: the session
\* variables are null, no frame is pending and the scratch fields of the
\* session's connected nodes are removed.
C4_ReleasedSessionReachesIdle ==
    Decelerating ~> (IdleAndClean \/ lastEvt.type = "grab")

\* C4 witness: Idle has been reached by a frame of the decay loop, after the
\* velocity of a connected node was decayed more than once.
C4_Witness ==
    /\ IdleAndClean
    /\ lastEvt.type = "frame"
    /\ \E n \in Nodes : decaySteps[n] >= 3 /\ velOrigin[n] = grabs

\* the position node number j of the connected set has when node number i
\* is visited in the move that leads to the next state
SeenPosition(i, j) ==
    IF j < i THEN position'[connectedNodes[1][j]] ELSE position[connectedNodes[1][j]]

\* C8: in a move, a connected node that every other connected node
\* coincides with gets no repulsion, and no spring term either when it
\* coincides with the dragged node: its velocity becomes 0.85 times the sum
\* of its old velocity, 0.3 times the displacement and the spring term.
C8_ZeroDistanceAddsNoForce ==
    [][ ( /\ lastEvt'.type = "drag"
          /\ ~IsNull(draggedNode) /\ ~IsNull(connectedNodes) /\ ~IsNull(prevDragPos) )
        => LET conn    == connectedNodes[1]
               dragPos == position'[draggedNode[1]]
               follow  == << MulFrac(dragPos[1] - prevDragPos[1], 3, 10),
                             MulFrac(dragPos[2] - prevDragPos[2], 3, 10) >>
           IN  \A i \in 1..Len(conn) :
                 (\A j \in 1..Len(conn) : SeenPosition(i, j) = position[conn[i]])
                 => LET v      == scratch[conn[i]].velocity
                        spring == IF position[conn[i]] = dragPos THEN << 0, 0 >>
                                  ELSE SpringForce(position[conn[i]], dragPos,
                                                   OriginalDistOf(scratch[conn[i]]))
                        after  == << MulFrac(v[1] + follow[1] + spring[1], 17, 20),
                                     MulFrac(v[2] + follow[2] + spring[2], 17, 20) >>
                    IN  /\ scratch'[conn[i]].velocity = after
                        /\ position'[conn[i]] = VecAdd(position[conn[i]], after) ]_vars

\* C8 witness: the first move of a session with two connected nodes has put
\* the dragged node on a connected node, which now has the velocity
\* 0.85 * 0.3 * displacement alone.
C8_Witness ==
    /\ lastEvt.type = "drag"
    /\ moves = 1
    /\ lastEvt.delta /= << 0, 0 >>
    /\ Cardinality(Connected) = 2
    /\ \E n \in Connected :
         /\ scratch[n].velocity = << MulFrac(MulFrac(lastEvt.delta[1], 3, 10), 17, 20),
                                     MulFrac(MulFrac(lastEvt.delta[2], 3, 10), 17, 20) >>
         /\ position[n] = VecAdd(position[draggedNode[1]], scratch[n].velocity)

\* C9: from the release to the teardown no step increases the absolute
\* value of a velocity component of a connected node.
C9_VelocityNeverGrowsAfterRelease ==
    [][ (lastEvt'.type \in {"free", "frame"} /\ held' = NoPointer)
        => \A n \in Connected :
             \/ IsNull(scratch'[n].velocity)
             \/ /\ ~IsNull(scratch[n].velocity)
                /\ Abs(scratch'[n].velocity[1]) <= Abs(scratch[n].velocity[1])
                /\ Abs(scratch'[n].velocity[2]) <= Abs(scratch[n].velocity[2]) ]_vars

\* C9 witness: a decay frame has run on a connected node that is moving.
C9_Witness ==
    /\ Decelerating
    /\ lastEvt.type = "frame"
    /\ \E n \in Connected : decaySteps[n] >= 2 /\ StillMoving(scratch[n].velocity)

\* floor(0.1 / 0.88^n) in micro-pixels for n = 0 .. 60, as element n + 1:
\* v * 0.88^n <= 0.1 exactly when v <= SettleBound[n + 1].
SettleBound ==
    << 100000, 113636, 129132, 146741, 166751, 189490,
       215329, 244692, 278060, 315977, 359065, 408028,
       463668, 526896, 598745, 680393, 773174, 878606,
       998416, 1134564, 1289277, 1465088, 1664873, 1891901,
       2149888, 2443054, 2776198, 3154771, 3584967, 4073826,
       4629348, 5260622, 5977980, 6793159, 7719499, 8772158,
       9968362, 11327684, 12872368, 14627691, 16622376, 18889064,
       21464845, 24391870, 27718034, 31497766, 35792915, 40673768,
       46220191, 52522944, 59685164, 67824050, 77072784, 87582709,
       99525806, 113097506, 128519894, 146045334, 165960607, 188591599,
       214308635 >>

\* the least n >= from with v * 0.88^n <= 0.1
LeastSettled(v, from) ==
    CHOOSE n \in from..60 :
        /\ v <= SettleBound[n + 1]
        /\ \A k \in from..(n - 1) : v > SettleBound[k + 1]

\* the step just taken marked node n settled, in a loop a release started
SettlesNow(n) ==
    /\ lastEvt'.type \in {"free", "frame"}
    /\ ~IsNull(releaseVel'[n])
    /\ scratch[n].dragging = Some(TRUE)
    /\ scratch'[n].dragging /= Some(TRUE)

\* C10 as stated, with one step of rounding allowed: a node released with a
\* velocity of magnitude v0 > 0.1 is marked settled after n decay steps, n
\* the least with v0 * 0.88^n <= 0.1, and a node released with v0 <= 0.1 by
\* the release itself, with no frame.
C10_SettlesAfterStatedFrames ==
    [][ \A n \in Nodes :
          SettlesNow(n) =>
            LET v0 == Hypot(releaseVel'[n][1], releaseVel'[n][2])
            IN  IF v0 > settleThreshold
                THEN decaySteps'[n] \in { LeastSettled(v0, 0) - 1, LeastSettled(v0, 0) }
                ELSE lastEvt'.type = "free" ]_vars

RECURSIVE ProductsToSettle(_)
\* the least n >= 1 for which v, multiplied n times by 0.88, is at most 0.1
ProductsToSettle(v) ==
    IF MulFrac(v, 22, 25) <= Px \div 10 THEN 1
    ELSE 1 + ProductsToSettle(MulFrac(v, 22, 25))

\* C10 amended: a node released with velocity (vx, vy) is marked settled by
\* decay step number n, the step the release itself runs being the first,
\* for the least n >= 1 at which max(|vx|, |vy|), multiplied n times by
\* 0.88, is at most 0.1; n is the least n >= 1 with
\* max(|vx|, |vy|) * 0.88^n <= 0.1, or one less by rounding.
C10_SettlesAfterLeastStep ==
    [][ \A n \in Nodes :
          SettlesNow(n) =>
            LET m == Max(Abs(releaseVel'[n][1]), Abs(releaseVel'[n][2]))
            IN  /\ decaySteps'[n] = ProductsToSettle(m)
                /\ decaySteps'[n] \in { LeastSettled(m, 1) - 1, LeastSettled(m, 1) } ]_vars

\* C10 witness: a node released with a velocity above the threshold on
\* both axes has been marked settled by a later frame.
C10_Witness ==
    /\ lastEvt.type = "frame"
    /\ \E n \in Nodes :
         /\ ~IsNull(releaseVel[n])
         /\ Abs(releaseVel[n][1]) > settleThreshold
         /\ Abs(releaseVel[n][2]) > settleThreshold
         /\ decaySteps[n] >= 10
         /\ scratch[n].dragging /= Some(TRUE)

\* C11: a single connected node released with velocity (1.0, 0) is marked
\* settled by the 18th frame callback after the release (the 19th decay step,
\* the release running the first), and that step removes the node's scratch
\* fields and sets the session variables to null.
C11_SettlesAfter18Frames ==
    [][ \A n \in Nodes :
          (SettlesNow(n) /\ releaseVel'[n] = << Px, 0 >> /\ Connected = {n})
          => /\ lastEvt'.type = "frame"
             /\ decaySteps'[n] - 1 = 18
             /\ scratch'[n] = NoScratch
             /\ IsNull(draggedNode')
             /\ IsNull(connectedNodes')
             /\ IsNull(prevDragPos')
             /\ pendingFrames' = {} ]_vars

\* C11 witness: the node released with (1.0, 0) has settled and the
\* controller is idle.
C11_Witness ==
    /\ lastEvt.type = "frame"
    /\ IdleAndClean
    /\ releaseVel["b"] = << Px, 0 >>
    /\ decaySteps["b"] = 19
    /\ scratch["b"] = NoScratch

\* node n has no neighbour: every edge at n is a loop
Isolated(n) ==
    \A i \in 1..Len(edges) :
        (edges[i][1] = n \/ edges[i][2] = n) => edges[i] = << n, n >>

\* C12: the grab of a node with no neighbours starts a session with an empty
\* connected set; a move while that node is held changes no scratch field
\* and no position but that of the held node; the release leaves the
\* controller idle, requests no frame and changes no position.
C12_IsolatedGrabIsNoOp ==
    [][ /\ (lastEvt'.type = "grab" /\ Isolated(held'))
           => draggedNode' = Some(held') /\ connectedNodes' = Some(<< >>)
        /\ (lastEvt'.type = "drag" /\ Isolated(held))
           => /\ scratch' = scratch
              /\ \A n \in Nodes \ {held} : position'[n] = position[n]
        /\ (lastEvt'.type = "free" /\ Isolated(held))
           => /\ IsNull(draggedNode') /\ IsNull(connectedNodes') /\ IsNull(prevDragPos')
              /\ pendingFrames' \subseteq pendingFrames
              /\ position' = position
              /\ scratch' = scratch ]_vars

\* C12 witness: a node with no neighbours was grabbed, moved and released,
\* and the controller is idle with no frame pending.
C12_Witness ==
    /\ lastEvt.type = "free"
    /\ grabs = 1
    /\ moves >= 1
    /\ IsNull(draggedNode)
    /\ pendingFrames = {}
    /\ \E n \in Nodes :
         /\ Isolated(n)
         /\ \A g \in Graphs : g.edges = edges => position[n] /= ToMicro(g.position[n])

\* the graph holds a node with id n
Present(n) == ~IsNull(position[n])

\* C13: a reload that takes the dragged node out of the graph aborts the
\* session: the session variables are null and no node object carries a
\* scratch field right after it; and no later move or decay frame changes a
\* position in the graph.
C13_RemovedDraggedNodeAbortsSession ==
    [][ /\ (lastEvt'.type = "load" /\ ~IsNull(draggedNode) /\ IsNull(position'[draggedNode[1]]))
           => /\ IsNull(draggedNode') /\ IsNull(connectedNodes') /\ IsNull(prevDragPos')
              /\ \A n \in Nodes : scratch'[n] = NoScratch
              /\ IsNull(removed') \/ \A n \in Nodes : removed'[1].scratch[n] = NoScratch
        /\ (lastEvt'.type \in {"drag", "frame"} /\ ~IsNull(removed))
           => position' = position ]_vars

\* C14: once a reload has taken a connected node out of the graph while the
\* dragged node is still in it, a move or decay step of the session leaves
\* the position and velocity of the removed node as they were, and every
\* connected node that is still in the graph keeps being simulated: after
\* a move it carries a velocity and has advanced by it.
C14_RemovedConnectedNodeIsSkipped ==
    [][ ( /\ lastEvt'.type \in {"drag", "free", "frame"}
          /\ ~IsNull(draggedNode) /\ ~IsNull(connectedNodes) /\ ~IsNull(prevDragPos)
          /\ ~IsNull(removed)
          /\ Present(draggedNode[1])
          /\ \E m \in Connected : ~Present(m) )
        => /\ \A m \in Connected :
                ~Present(m) =>
                   \/ IsNull(removed')
                   \/ /\ removed'[1].position[m] = removed[1].position[m]
                      /\ removed'[1].scratch[m].velocity = removed[1].scratch[m].velocity
           /\ \A n \in Connected :
                (Present(n) /\ lastEvt'.type = "drag")
                => /\ ~IsNull(scratch'[n].velocity)
                   /\ position'[n] = VecAdd(position[n], scratch'[n].velocity) ]_vars

\* C15: the relationships table is symmetric, a row (a, b) exists exactly
\* when a row (b, a) exists, and no ordered pair is stored twice.
C15_RelationshipsSymmetric ==
    LET rel == db.relationships
    IN  /\ \A i \in 1..Len(rel) : \E j \in 1..Len(rel) : rel[j] = << rel[i][2], rel[i][1] >>
        /\ \A i, j \in 1..Len(rel) : i /= j => rel[i] /= rel[j]

\* C15 witness: an artist that existed has been deleted and relationships
\* among the others are still stored.
C15_Witness ==
    /\ response.op = "DELETE /api/artists/:id"
    /\ response.arg <= db.artistSeq
    /\ ArtistsById(db, response.arg) = << >>
    /\ Len(db.relationships) >= 2

\* C16: deleteArtist(id) leaves no artists row with that id, no
\* relationships row with it in either column and no artist_genres row of
\* it, and removes nothing else: the other rows of the three tables and the
\* genres table are as before.
C16_DeleteRemovesArtistAndItsRows ==
    [][ (response'.op = "DELETE /api/artists/:id" /\ requests' = requests + 1)
        => LET id == response'.arg
           IN  /\ response'.status = 200
               /\ \A i \in 1..Len(db'.artists) : db'.artists[i].id /= id
               /\ \A i \in 1..Len(db'.relationships) :
                     db'.relationships[i][1] /= id /\ db'.relationships[i][2] /= id
               /\ \A i \in 1..Len(db'.artist_genres) : db'.artist_genres[i][1] /= id
               /\ db'.artists = SelectSeq(db.artists, LAMBDA r : r.id /= id)
               /\ db'.relationships =
                      SelectSeq(db.relationships, LAMBDA r : r[1] /= id /\ r[2] /= id)
               /\ db'.artist_genres = SelectSeq(db.artist_genres, LAMBDA r : r[1] /= id)
               /\ db'.genres = db.genres ]_vars

\* C16 witness: an artist that existed has been deleted while another
\* artist, with a genre, remains.
C16_Witness ==
    /\ response.op = "DELETE /api/artists/:id"
    /\ response.status = 200
    /\ response.arg <= db.artistSeq
    /\ ArtistsById(db, response.arg) = << >>
    /\ Len(db.artists) >= 1
    /\ Len(db.artist_genres) >= 1

\* C17: no two artists rows have the same name after a request, and a
\* POST /api/artists whose name a row already has answers with that row's
\* id and inserts no row.
C17_ArtistNamesUnique ==
    [][ /\ \A i, j \in 1..Len(db'.artists) :
              i /= j => db'.artists[i].name /= db'.artists[j].name
        /\ ( /\ response'.op = "POST /api/artists"
             /\ requests' = requests + 1
             /\ ArtistsByName(db, response'.arg) /= << >> )
           => /\ response'.status = 200
              /\ response'.ids = << ArtistsByName(db, response'.arg)[1].id >>
              /\ Len(db'.artists) = Len(db.artists)
              /\ db'.artistSeq = db.artistSeq ]_vars

\* C17 witness: a POST /api/artists has been answered with a row that is
\* older than the newest one.
C17_Witness ==
    /\ response.op = "POST /api/artists"
    /\ response.status = 200
    /\ Len(db.artists) >= 2
    /\ response.ids[1] < db.artistSeq

\* C18: in an iteration of parseCSV's loop, inside quotes a comma, LF or CR
\* is added to the field and ends neither field nor row, and a doubled
\* quote adds one quote character; outside quotes a comma ends the field,
\* and LF, CR LF (taken together) or CR ends the row, which is kept only if
\* one of its fields is not empty; no returned row has only empty fields.
C18_QuotesCommasAndLineBreaks ==
    [][ LET char == CharAt(csv.csvText, csv.i)
            nextChar == CharAt(csv.csvText, csv.i + 1)
            row == Append(csv.currentRow, Trim(csv.currentField))
        IN  /\ (~csv.returned /\ csv.insideQuotes /\ char \in { ",", "\n", "\r" })
               => /\ csv'.currentField = Append(csv.currentField, char)
                  /\ csv'.currentRow = csv.currentRow
                  /\ csv'.rows = csv.rows
                  /\ csv'.insideQuotes
                  /\ csv'.i = csv.i + 1
            /\ (~csv.returned /\ csv.insideQuotes /\ char = "\"" /\ nextChar = "\"")
               => /\ csv'.currentField = Append(csv.currentField, "\"")
                  /\ csv'.currentRow = csv.currentRow
                  /\ csv'.rows = csv.rows
                  /\ csv'.insideQuotes
                  /\ csv'.i = csv.i + 2
            /\ (~csv.returned /\ ~csv.insideQuotes /\ char = ",")
               => /\ csv'.currentRow = row
                  /\ csv'.currentField = << >>
                  /\ csv'.rows = csv.rows
            /\ (~csv.returned /\ ~csv.insideQuotes /\ char \in { "\n", "\r" })
               => /\ csv'.currentRow = << >>
                  /\ csv'.currentField = << >>
                  /\ csv'.rows = IF \E k \in 1..Len(row) : row[k] /= << >>
                                 THEN Append(csv.rows, row) ELSE csv.rows
                  /\ csv'.i = csv.i + (IF char = "\r" /\ nextChar = "\n" THEN 2 ELSE 1)
            /\ csv'.returned
               => \A r \in 1..Len(csv'.rows) :
                     \E k \in 1..Len(csv'.rows[r]) : csv'.rows[r][k] /= << >> ]_vars

\* C18 witness: the text ","""" has been parsed into one row with the one
\* field ,"
C18_Witness ==
    /\ csv.returned
    /\ csv.csvText = << "\"", ",", "\"", "\"", "\"" >>
    /\ csv.rows = << << << ",", "\"" >> >> >>

\* C19: right after a grab of N every connected node has velocity (0, 0)
\* and an original distance equal to its Euclidean distance to N, and
\* prevDragPos is N's position.
C19_GrabRecordsDistancesAndZeroVelocity ==
    lastEvt.type = "grab" =>
        LET N == draggedNode[1]
        IN  /\ prevDragPos = position[N]
            /\ \A m \in Range(connectedNodes[1]) :
                  /\ scratch[m].velocity = << 0, 0 >>
                  /\ scratch[m].originalDist =
                        Some(Hypot(position[m][1] - position[N][1],
                                   position[m][2] - position[N][2]))

\* C19 witness: a second grab while the frame loop of the first session is
\* still pending, with a connected node that is no longer at the ideal
\* distance from the grabbed node.
C19_Witness ==
    /\ lastEvt.type = "grab"
    /\ grabs = 2
    /\ moves = 1
    /\ pendingFrames /= {}
    /\ \E m \in Range(connectedNodes[1]) :
          /\ scratch[m].velocity = << 0, 0 >>
          /\ scratch[m].originalDist /= Some(idealDistance * Px)

\* C20: a move in an active session uses delta = N's current position minus
\* prevDragPos for every connected node and then sets prevDragPos to N's
\* current position; that delta is the displacement of N by this move, so
\* the deltas since the grab add up to N's displacement since the grab.
C20_DeltaIsDisplacementSincePreviousMove ==
    [][ (moves' = moves + 1 /\ ~IsNull(draggedNode) /\ ~IsNull(connectedNodes)
           /\ ~IsNull(prevDragPos))
        => LET N == draggedNode[1]
               delta == << position'[N][1] - prevDragPos[1],
                           position'[N][2] - prevDragPos[2] >>
               moved == [ position EXCEPT ![N] = position'[N] ]
               out == DragNodes(1, connectedNodes[1], position'[N], delta, moved, scratch)
           IN  /\ delta = lastEvt'.delta
               /\ position' = out.position
               /\ scratch' = out.scratch
               /\ prevDragPos' = position'[N] ]_vars

\* C20 witness: the second move of one session has been handled and has
\* given a connected node a velocity.
C20_Witness ==
    /\ lastEvt.type = "drag"
    /\ grabs = 1
    /\ moves = 2
    /\ ~IsNull(draggedNode)
    /\ ~IsNull(prevDragPos)
    /\ prevDragPos = position[draggedNode[1]]
    /\ \E m \in Range(connectedNodes[1]) : scratch[m].velocity \notin { Null, << 0, 0 >> }

\* a move handled in an active session: the step is a pointer move and the
\* three session variables were set before it
ActiveMove ==
    /\ moves' = moves + 1
    /\ ~IsNull(draggedNode) /\ ~IsNull(connectedNodes) /\ ~IsNull(prevDragPos)

\* the positions the i-th connected node reads in a move: those already
\* committed in this move for the nodes before it, the old ones otherwise
SeenBy(i) ==
    [ k \in Nodes |->
        IF \E j \in 1..(i - 1) : connectedNodes[1][j] = k THEN position'[k] ELSE position[k] ]

\* C21: in a move with delta D every connected node's new velocity is 0.85
\* times the sum of its old velocity, 0.3 * D, the spring term and the
\* repulsion terms; its position advances by exactly that velocity, which
\* is stored; from rest with D = (50, 0) and neither spring nor repulsion
\* the sum is (15, 0) and the stored velocity (12.75, 0).
C21_FollowThenDampThenAdvance ==
    [][ ActiveMove =>
          LET conn == connectedNodes[1]
              dragPos == position'[draggedNode[1]]
              D == << dragPos[1] - prevDragPos[1], dragPos[2] - prevDragPos[2] >>
          IN  \A i \in 1..Len(conn) :
                LET m == conn[i]
                    follow == << MulFrac(D[1], 3, 10), MulFrac(D[2], 3, 10) >>
                    spring == SpringForce(position[m], dragPos, OriginalDistOf(scratch[m]))
                    repel == RepulsionSum(m, conn, 1, SeenBy(i))
                    sum == VecAdd(VecAdd(VecAdd(VelocityOf(scratch[m]), follow), spring), repel)
                    damped == << MulFrac(sum[1], 17, 20), MulFrac(sum[2], 17, 20) >>
                IN  /\ scratch'[m].velocity = damped
                    /\ position'[m] = VecAdd(position[m], damped)
                    /\ (/\ VelocityOf(scratch[m]) = << 0, 0 >>
                        /\ D = << 50 * Px, 0 >>
                        /\ spring = << 0, 0 >>
                        /\ repel = << 0, 0 >>)
                       => /\ sum = << 15 * Px, 0 >>
                          /\ damped = << 12750000, 0 >> ]_vars

\* C21 witness: in the graph a-b, a has been grabbed and moved by (50, 0),
\* which leaves b at its recorded distance 65; b has velocity (12.75, 0)
\* and stands 12.75 to the right of where it was.
C21_Witness ==
    /\ lastEvt.type = "drag"
    /\ lastEvt.delta = << 50 * Px, 0 >>
    /\ moves = 1
    /\ connectedNodes = Some(<< "b" >>)
    /\ scratch["b"].originalDist = Some(65 * Px)
    /\ Hypot(position["b"][1] - scratch["b"].velocity[1] - position["a"][1],
             position["b"][2] - position["a"][2]) = 65 * Px
    /\ scratch["b"].velocity = << 12750000, 0 >>
    /\ position["b"] = << 37750000, 60 * Px >>

\* force lies on the line of (dx, dy), pointing as (dx, dy) does when
\* sense = 1 and against it when sense = -1: the signs of its components
\* agree and the cross product of the two vectors, taken in units of
\* 0.001 px and 0.01 px, is zero up to the resolution of the arithmetic
Along(force, dx, dy, sense) ==
    LET fx == force[1] \div 1000
        fy == force[2] \div 1000
        cx == dx \div Coarse
        cy == dy \div Coarse
        f1 == Abs(fx) + Abs(fy) + 2
        d1 == Abs(cx) + Abs(cy) + 2
    IN  /\ force /= << 0, 0 >>
        /\ Sgn(force[1]) \in { 0, sense * Sgn(dx) }
        /\ Sgn(force[2]) \in { 0, sense * Sgn(dy) }
        /\ Abs(fx * cy - fy * cx) <= 2 * f1 + 2 * d1 + ((f1 \div 10 + 1) * (d1 \div 10 + 1)) \div 2

\* force has length mag, compared through the squares in units of 0.001 px
\* (0.01 px above 40 px, 1 px above 400 px), up to the resolution of the
\* arithmetic at distance dist
HasLength(force, mag, dist) ==
    LET unit == IF mag <= 40 * Px THEN 1000 ELSE IF mag <= 400 * Px THEN Coarse ELSE Px
        fx == force[1] \div unit
        fy == force[2] \div unit
        mg == mag \div unit
        tol == mg \div 50 + (2 * mg) \div Max(1, dist \div Coarse) + 5
        lo == Max(0, mg - tol)
        hi == mg + tol
    IN  /\ fx * fx + fy * fy >= lo * lo
        /\ fx * fx + fy * fy <= hi * hi

\* C22: in a move, the spring term of a connected node at distance d > 0
\* from the dragged node's new position has length 0.1 * |d - D0| and lies
\* on the line through the two nodes, toward the dragged node when d > D0
\* and away from it when d < D0; it is zero when d = D0.
C22_SpringRestoresDistance ==
    [][ ActiveMove =>
          LET dragPos == position'[draggedNode[1]]
          IN  \A m \in Range(connectedNodes[1]) :
                LET dx == position[m][1] - dragPos[1]
                    dy == position[m][2] - dragPos[2]
                    d == Hypot(dx, dy)
                    D0 == OriginalDistOf(scratch[m])
                    spring == SpringForce(position[m], dragPos, D0)
                IN  d > 0 =>
                      /\ HasLength(spring, MulFrac(Abs(d - D0), 1, 10), d)
                      /\ d > D0 + 10 * Coarse => Along(spring, dx, dy, -1)
                      /\ d < D0 - 10 * Coarse => Along(spring, dx, dy, 1)
                      /\ d = D0 => spring = << 0, 0 >> ]_vars

\* C22 witness: after the move of a by (0, 30) in the star, b was nearer
\* to a than at the grab and has been pushed up, away from a, and c was
\* farther and has been pulled up, toward a, by more than the follow term.
C22_Witness ==
    /\ lastEvt.type = "drag"
    /\ lastEvt.delta = << 0, 30 * Px >>
    /\ moves = 1
    /\ connectedNodes = Some(<< "b", "c", "d" >>)
    /\ position["a"] = << 0, 30 * Px >>
    /\ scratch["b"].originalDist = Some(50 * Px)
    /\ scratch["c"].originalDist = Some(50 * Px)
    /\ scratch["b"].velocity[2] > MulFrac(9 * Px, 17, 20)
    /\ scratch["c"].velocity[2] > MulFrac(9 * Px, 17, 20)

\* C23: in every move of a session the spring term of a connected node is
\* computed with the distance recorded for it at the grab as rest length,
\* whatever that distance is, 0 included.
C23_RestLengthIsRecordedDistance ==
    [][ ActiveMove =>
          LET conn == connectedNodes[1]
              dragPos == position'[draggedNode[1]]
              D == << dragPos[1] - prevDragPos[1], dragPos[2] - prevDragPos[2] >>
          IN  \A i \in 1..Len(conn) :
                LET m == conn[i]
                    D0 == scratch[m].originalDist[1]
                    spring == SpringForce(position[m], dragPos, D0)
                    repel == RepulsionSum(m, conn, 1, SeenBy(i))
                    sum == VecAdd(VecAdd(VecAdd(VelocityOf(scratch[m]), VecScale(D, followStrength)),
                                         spring), repel)
                IN  scratch'[m].velocity = VecScale(sum, dampingFactor) ]_vars

\* mag, taken in units of 0.001 px, is 50 / d2^2 with d2 taken in units of
\* 0.01 px: mag * d2^2 = 50, up to the last digit of mag
InverseSquare(mag, d2) ==
    LET k == mag \div 1000
        c == Max(1, d2 \div Coarse)
    IN  /\ k * c * c <= 50 * 10000000
        /\ (k + 2) * c * c >= 50 * 10000000

\* C24: in a move, the repulsion a connected node receives from another
\* connected node at distance d2, as it reads that node's position, is
\* 50 / d2^2 directed away from the other node when 0 < d2 < 100 and zero
\* when d2 = 0 or d2 >= 100; the sum of these terms over the other
\* connected nodes is what enters the node's velocity.
C24_RepulsionOnlyInsideIdealDistance ==
    [][ ActiveMove =>
          LET conn == connectedNodes[1]
              dragPos == position'[draggedNode[1]]
              D == << dragPos[1] - prevDragPos[1], dragPos[2] - prevDragPos[2] >>
          IN  \A i \in 1..Len(conn) :
                LET m == conn[i]
                    spring == SpringForce(position[m], dragPos, OriginalDistOf(scratch[m]))
                    repel == RepulsionSum(m, conn, 1, SeenBy(i))
                    sum == VecAdd(VecAdd(VecAdd(VelocityOf(scratch[m]), VecScale(D, followStrength)),
                                         spring), repel)
                IN  /\ scratch'[m].velocity = VecScale(sum, dampingFactor)
                    /\ \A j \in 1..Len(conn) :
                          LET other == SeenBy(i)[conn[j]]
                              dx2 == position[m][1] - other[1]
                              dy2 == position[m][2] - other[2]
                              d2 == Hypot(dx2, dy2)
                              term == Repulsion(position[m], other)
                          IN  j /= i =>
                                IF 0 < d2 /\ d2 < 100 * Px
                                THEN /\ Along(term, dx2, dy2, 1)
                                     /\ HasLength(term, RepulsionMagnitude(d2), d2)
                                     /\ InverseSquare(RepulsionMagnitude(d2), d2)
                                ELSE term = << 0, 0 >> ]_vars

\* C24 witness: the first move of a in the star.  b was visited first and
\* read c exactly 100 away and d 50 away: its velocity holds the repulsion
\* from d, 50 / 50^2 = 0.02 upward, and nothing from c.
C24_Witness ==
    /\ lastEvt.type = "drag"
    /\ lastEvt.delta = << 50 * Px, 0 >>
    /\ moves = 1
    /\ connectedNodes = Some(<< "b", "c", "d" >>)
    /\ VecAdd(position["b"], << -scratch["b"].velocity[1], -scratch["b"].velocity[2] >>)
          = << 0, 50 * Px >>
    /\ Hypot(0, 50 * Px - (-50 * Px)) = 100 * Px
    /\ RepulsionMagnitude(50 * Px) = 20000
    /\ scratch["b"].velocity =
          VecScale(VecAdd(VecAdd(VecScale(lastEvt.delta, followStrength),
                                 SpringForce(<< 0, 50 * Px >>, position["a"], 50 * Px)),
                          << 0, 20000 >>),
                   dampingFactor)

\* the step runs decelerate: a release in a session, or a frame callback
\* that finds a connected set
DecayStep ==
    \/ lastEvt'.type = "free" /\ held /= NoPointer /\ ~IsNull(draggedNode)
          /\ ~IsNull(connectedNodes)
    \/ lastEvt'.type = "frame" /\ ~IsNull(connectedNodes) /\ vars' /= vars

\* v * 0.88
Times088(v) == << MulFrac(v[1], 22, 25), MulFrac(v[2], 22, 25) >>

\* |v.x| > 0.1 or |v.y| > 0.1
AboveThreshold(v) == Abs(v[1]) > Px \div 10 \/ Abs(v[2]) > Px \div 10

\* the connected nodes a decay step still updates
Unsettled ==
    { m \in Connected : scratch[m].dragging = Some(TRUE) /\ ~IsNull(scratch[m].velocity) }

\* C25: a decay step multiplies the velocity of every unsettled connected
\* node by 0.88; a node whose decayed velocity exceeds 0.1 on some axis
\* advances by it and a frame is requested; any other node is marked
\* settled and stays where it is.  When no node is left moving the step
\* ends the session and the fields are removed instead.
C25_DecayStep ==
    [][ DecayStep =>
          LET goesOn == \E m \in Unsettled : AboveThreshold(Times088(scratch[m].velocity))
          IN  /\ goesOn <=> ~IsNull(connectedNodes')
              /\ goesOn => /\ ~IsNull(animationId')
                           /\ \E f \in pendingFrames' : f.id = animationId'[1]
              /\ \A m \in Unsettled :
                    LET v == Times088(scratch[m].velocity)
                    IN  IF AboveThreshold(v)
                        THEN /\ position'[m] = VecAdd(position[m], v)
                             /\ scratch'[m] = [ scratch[m] EXCEPT !.velocity = v ]
                        ELSE /\ position'[m] = position[m]
                             /\ scratch'[m] = IF goesOn
                                              THEN [ scratch[m] EXCEPT !.velocity = v,
                                                                      !.dragging = Some(FALSE) ]
                                              ELSE NoScratch ]_vars

\* C25 witness: a decay step has left one connected node marked settled,
\* with a velocity at or below the threshold on both axes, and another
\* one moving, with a frame pending.
C25_Witness ==
    /\ lastEvt.type \in { "free", "frame" }
    /\ pendingFrames /= {}
    /\ \E m, n \in Connected :
          /\ scratch[m].dragging = Some(FALSE)
          /\ ~AboveThreshold(scratch[m].velocity)
          /\ scratch[m].velocity /= << 0, 0 >>
          /\ scratch[n].dragging = Some(TRUE)
          /\ AboveThreshold(scratch[n].velocity)

\* the connected nodes marked settled: _dragging is false
Settled == { m \in Connected : scratch[m].dragging = Some(FALSE) }

\* C26: a decay step changes neither the position nor the velocity of a
\* connected node that is marked settled and leaves its fields in place,
\* unless the step leaves no connected node moving; a decay step removes
\* fields only in that case, and then those of all connected nodes.
C26_SettledNodeIsLeftAlone ==
    [][ DecayStep =>
          LET goesOn == \E m \in Unsettled : AboveThreshold(Times088(scratch[m].velocity))
          IN  /\ \A m \in Settled :
                    /\ position'[m] = position[m]
                    /\ IF goesOn THEN scratch'[m] = scratch[m] ELSE scratch'[m] = NoScratch
              /\ \A m \in Connected :
                    IF goesOn
                    THEN /\ ~IsNull(scratch'[m].velocity)
                         /\ ~IsNull(scratch'[m].dragging)
                         /\ scratch'[m].originalDist = scratch[m].originalDist
                         /\ scratch'[m].angle = scratch[m].angle
                    ELSE scratch'[m] = NoScratch ]_vars

\* C26 witness: a frame has run in which a connected node marked settled
\* was passed over while another one took a further decay step, and both
\* still carry their fields.
C26_Witness ==
    /\ lastEvt.type = "frame"
    /\ pendingFrames /= {}
    /\ \E m \in Settled :
          /\ ~IsNull(scratch[m].velocity)
          /\ ~IsNull(scratch[m].originalDist)
          /\ \E n \in Connected \ Settled :
                /\ ~IsNull(releaseVel[m]) /\ ~IsNull(releaseVel[n])
                /\ decaySteps[n] > decaySteps[m]
                /\ decaySteps[m] > 0

\* two connected nodes are less than 100 apart before the move
CloseConnectedPair ==
    \E m, n \in Connected :
        /\ m /= n
        /\ Hypot(position[m][1] - position[n][1], position[m][2] - position[n][2]) < 100 * Px

\* the distance between two positions
Distance(p, q) == Hypot(p[1] - q[1], p[2] - q[2])

\* C27 as stated: in a move the i-th connected node computes its velocity
\* from the positions already committed in this move for the nodes before
\* it and the old positions of the nodes after it, and whenever two
\* connected nodes are less than 100 apart some node ends with another
\* velocity than if all of them had read the old positions.
C27_DiffersWheneverClose ==
    [][ ActiveMove =>
          LET conn == connectedNodes[1]
              dragPos == position'[draggedNode[1]]
              D == << dragPos[1] - prevDragPos[1], dragPos[2] - prevDragPos[2] >>
              before == [ position EXCEPT ![draggedNode[1]] = dragPos ]
          IN  /\ \A i \in 1..Len(conn) :
                    /\ scratch'[conn[i]].velocity =
                          DragVelocity(conn[i], conn, dragPos, D, SeenBy(i), scratch)
                    /\ position'[conn[i]] = VecAdd(position[conn[i]], scratch'[conn[i]].velocity)
              /\ CloseConnectedPair =>
                    \E i \in 1..Len(conn) :
                        scratch'[conn[i]].velocity /=
                          DragVelocity(conn[i], conn, dragPos, D, before, scratch) ]_vars

\* C27, amended: the update is sequential as above, and the result differs
\* from the one all-old positions would give only if some node comes after
\* a connected node that got a non-zero velocity in this move and is less
\* than 100 from that node's old or new position.
C27_SequentialUpdate ==
    [][ ActiveMove =>
          LET conn == connectedNodes[1]
              dragPos == position'[draggedNode[1]]
              D == << dragPos[1] - prevDragPos[1], dragPos[2] - prevDragPos[2] >>
              before == [ position EXCEPT ![draggedNode[1]] = dragPos ]
          IN  /\ \A i \in 1..Len(conn) :
                    /\ scratch'[conn[i]].velocity =
                          DragVelocity(conn[i], conn, dragPos, D, SeenBy(i), scratch)
                    /\ position'[conn[i]] = VecAdd(position[conn[i]], scratch'[conn[i]].velocity)
              /\ (\E i \in 1..Len(conn) :
                      scratch'[conn[i]].velocity /=
                        DragVelocity(conn[i], conn, dragPos, D, before, scratch))
                 => \E j \in 1..Len(conn) : \E i \in 1..(j - 1) :
                        /\ scratch'[conn[i]].velocity /= << 0, 0 >>
                        /\ \/ Distance(position[conn[j]], position[conn[i]]) < 100 * Px
                           \/ Distance(position[conn[j]], position'[conn[i]]) < 100 * Px ]_vars

\* C27 witness: the second move of a by (5, 0).  b, visited first, has
\* moved, and the repulsion c got from b's new place is not the one b's
\* old place would have given.
C27_Witness ==
    /\ lastEvt.type = "drag"
    /\ moves = 2
    /\ connectedNodes = Some(<< "b", "c" >>)
    /\ scratch["b"].velocity /= << 0, 0 >>
    /\ LET old(n) == << position[n][1] - scratch[n].velocity[1],
                        position[n][2] - scratch[n].velocity[2] >>
       IN  /\ Distance(old("c"), old("b")) < 100 * Px
           /\ Repulsion(old("c"), position["b"]) /= Repulsion(old("c"), old("b"))

\* C28: a move or a release that arrives while there is no dragged node or
\* no connected set changes no transient field, no session variable and no
\* pending frame, and no position but, for a move, that of the node the
\* pointer carries.
C28_IdleMoveAndReleaseChangeNothing ==
    [][ ((IsNull(draggedNode) \/ IsNull(connectedNodes)) /\ held /= NoPointer
           /\ (moves' = moves + 1 \/ held' = NoPointer))
        => /\ scratch' = scratch
           /\ draggedNode' = draggedNode
           /\ connectedNodes' = connectedNodes
           /\ prevDragPos' = prevDragPos
           /\ animationId' = animationId
           /\ pendingFrames' = pendingFrames
           /\ \A n \in Nodes \ { held } : position'[n] = position[n]
           /\ held' = NoPointer => position' = position ]_vars

\* C28 witness: the frame left over from the session before has ended the
\* session while a was held; a was then moved and released, and b is
\* where it was, without fields.
C28_Witness ==
    /\ lastEvt.type = "free"
    /\ moves = 1
    /\ grabs = 1
    /\ IsNull(draggedNode)
    /\ IsNull(connectedNodes)
    /\ pendingFrames = {}
    /\ position["a"] /= ToMicro(<< 10, 0 >>)
    /\ ToMicro(<< 60, 80 >>) = position["b"]
    /\ scratch = [ n \in Nodes |-> NoScratch ]

\* C29: between handler executions at most one callback of the decay loop
\* is pending, and it is the one animationId names; while a released
\* session has not been torn down exactly one is pending.
C29_OneDecayFramePending ==
    /\ Cardinality(pendingFrames) <= 1
    /\ \A f \in pendingFrames : animationId = Some(f.id)
    /\ Decelerating => Cardinality(pendingFrames) = 1

\* C29 witness: a node grabbed while the callback of the session before
\* was pending has been moved and released; the release cancelled that
\* callback and the only pending one belongs to the new session.
C29_Witness ==
    /\ Decelerating
    /\ lastEvt.type = "free"
    /\ grabs = 1
    /\ moves = 1
    /\ \E f \in pendingFrames : f.session = 1 /\ pendingFrames = { f }

\* C30: after any sequence of API requests both endpoints of every stored
\* relationship row are ids of existing artists and differ from each other.
C30_RelationshipEndpointsExist ==
    \A i \in 1..Len(db.relationships) :
        LET row == db.relationships[i]
        IN  /\ ArtistsById(db, row[1]) /= << >>
            /\ ArtistsById(db, row[2]) /= << >>
            /\ row[1] /= row[2]

====
